---- MODULE Spec2Model ----
(***************************************************************************)
(* A model of go-sfdc's bulk clients: the bulk v2 ingest Job, the bulk v2  *)
(* QueryJob and the bulk v1 Job, their option validation, their HTTP       *)
(* operations against the Salesforce server, and the CSV result parser.    *)
(*                                                                         *)
(* The server, the transport and the file system are the environment: each *)
(* operation draws the outcome of its single round trip from the set of    *)
(* outcomes the environment can produce.                                   *)
(***************************************************************************)
EXTENDS Integers, Sequences, FiniteSets, TLC

(***************************************************************************)
(* Bounds of the model.                                                    *)
(***************************************************************************)
\* the widest header row of a result stream
MaxCols == 3
\* the most data rows of a result stream
MaxRows == 2
\* the most result pages a query job holds on the server
MaxPages == 3

(***************************************************************************)
(* Enumerations of the packages (the v2 ingest and v2 query packages       *)
(* declare the same delimiter, line ending and content type names).        *)
(***************************************************************************)
Backquote == "BACKQUOTE"
Caret == "CARET"
Comma == "COMMA"
Pipe == "PIPE"
SemiColon == "SEMICOLON"
Tab == "TAB"

CSV == "CSV"
Linefeed == "LF"
CarriageReturnLinefeed == "CRLF"

Insert == "insert"
Upsert == "upsert"

Query == "query"
QueryAll == "queryAll"

Open == "Open"
UpdateComplete == "UploadComplete"
Aborted == "Aborted"
Closed == "Closed"
JobComplete == "JobComplete"

sfID == "sf__Id"
sfError == "sf__Error"
sfCreated == "sf__Created"

\* net/http status codes the operations compare against
StatusOK == 200
StatusCreated == 201
StatusNoContent == 204

\* the rune literals of delimiter(), as code points (a Go rune is an int32)
RuneTab == 9
RuneSemiColon == 59
RunePipe == 124
RuneCaret == 94
RuneBackquote == 96
RuneComma == 44

VARIABLES
  WriteResponse,   \* bulk v2 ingest Job.WriteResponse: the job's stored snapshot
  QueryResponse,   \* bulk v2 QueryJob.QueryResponse: the job's stored snapshot
  Response,        \* bulk v1 Job.Response: the job's stored snapshot
  sent,            \* the HTTP requests the last operation issued, in order
  call,            \* the last operation: its name, its inputs and what it returned
  files,           \* the file system: path -> the file there (SpecPaging)
  stream,          \* the CSV result stream the server (or a local file) holds
  pages,           \* the result pages the server holds for the query job
  loop,            \* the caller's pagination loop over QueryJob.ExportResults
  resource         \* the caller's *Resource (soql or bulk query), nil before NewResource

vars ==
  <<WriteResponse, QueryResponse, Response, sent, call, files, stream, pages, loop, resource>>

(***************************************************************************)
(* Helpers.                                                                *)
(***************************************************************************)
Range(s) == {s[i] : i \in 1..Len(s)}

Max(S) == CHOOSE x \in S : \A y \in S : y <= x

\* the injective sequences over S of length n
RECURSIVE Arrangements(_, _)
Arrangements(S, n) ==
  IF n = 0 THEN {<<>>}
  ELSE UNION {{<<x>> \o t : t \in Arrangements(S \ {x}, n - 1)} : x \in S}

\* the sequences over S of length at most n
RECURSIVE SeqsUpTo(_, _)
SeqsUpTo(S, n) ==
  IF n = 0 THEN {<<>>}
  ELSE SeqsUpTo(S, n - 1) \cup {Append(t, x) : t \in {u \in SeqsUpTo(S, n - 1) : Len(u) = n - 1}, x \in S}

(***************************************************************************)
(* The zero values of the snapshots (Go zero values: every string empty).  *)
(***************************************************************************)
ZeroWriteResponse == [ID |-> "", ColumnDelimiter |-> "", State |-> ""]
ZeroQueryResponse == [ID |-> "", ColumnDelimiter |-> "", State |-> ""]
ZeroJobInfo == [ID |-> "", State |-> ""]

NoFile == [exists |-> FALSE]
NoCall == [op |-> "none"]
NilResource == [nil |-> TRUE]

(***************************************************************************)
(* Delimiter resolution.                                                   *)
(***************************************************************************)
Job_delimiter_NoBackquote(columnDelimiter) ==
  CASE columnDelimiter = Tab -> RuneTab
    [] columnDelimiter = SemiColon -> RuneSemiColon
    [] columnDelimiter = Pipe -> RunePipe
    [] columnDelimiter = Caret -> RuneCaret
    [] OTHER -> RuneComma

\* Job.delimiter: switch ColumnDelimiter(j.WriteResponse.ColumnDelimiter)
Job_delimiter(columnDelimiter) ==
  CASE columnDelimiter = Tab -> RuneTab
    [] columnDelimiter = SemiColon -> RuneSemiColon
    [] columnDelimiter = Pipe -> RunePipe
    [] columnDelimiter = Caret -> RuneCaret
    [] columnDelimiter = Backquote -> RuneBackquote
    [] OTHER -> RuneComma

\* QueryJob.delimiter: switch ColumnDelimiter(j.QueryResponse.ColumnDelimiter)
QueryJob_delimiter(columnDelimiter) ==
  CASE columnDelimiter = Tab -> RuneTab
    [] columnDelimiter = SemiColon -> RuneSemiColon
    [] columnDelimiter = Pipe -> RunePipe
    [] columnDelimiter = Caret -> RuneCaret
    [] columnDelimiter = Backquote -> RuneBackquote
    [] OTHER -> RuneComma

(***************************************************************************)
(* The result streams.  A stream is a sequence of lines and a line is a    *)
(* sequence of tokens: a token is a piece of text, [text |-> s], or one    *)
(* delimiter character, [rune |-> r].  The server writes each row as its   *)
(* cells joined by the delimiter the job declared.                         *)
(***************************************************************************)
TextTok(s) == [text |-> s]
RuneTok(r) == [rune |-> r]
IsRune(tok) == DOMAIN tok = {"rune"}

\* a cell whose text holds a quote in the middle: a malformed (bare quote) field
BareQuoteCell == "Ac\"me"

\* the character the Bulk API 2.0 server writes for a declared columnDelimiter
\* (COMMA is the server's default)
ServerDelimiter(columnDelimiter) ==
  CASE columnDelimiter = "TAB" -> 9
    [] columnDelimiter = "SEMICOLON" -> 59
    [] columnDelimiter = "PIPE" -> 124
    [] columnDelimiter = "CARET" -> 94
    [] columnDelimiter = "BACKQUOTE" -> 96
    [] OTHER -> 44

\* the columns a result stream can have, and the values the server puts in each
ColumnNames == {sfID, sfCreated, sfError, "Name"}

CellValues(column) ==
  CASE column = sfID -> {"001"}
    [] column = sfCreated -> {"true", "0", "maybe"}
    [] column = sfError -> {"REQUIRED_FIELD_MISSING"}
    [] OTHER -> {"Acme", BareQuoteCell}

Headers == UNION {Arrangements(ColumnNames, n) : n \in 1..MaxCols}

\* the rows the server can write under a header: one value per column, or a short
\* row that lacks the last column
FullRows(header) ==
  {cells \in [1..Len(header) -> UNION {CellValues(c) : c \in ColumnNames}] :
     \A i \in 1..Len(header) : cells[i] \in CellValues(header[i])}

PlainValue(column) ==
  CASE column = sfID -> "001"
    [] column = sfCreated -> "true"
    [] column = sfError -> "REQUIRED_FIELD_MISSING"
    [] OTHER -> "Acme"

ShortRow(header) == [i \in 1..(Len(header) - 1) |-> PlainValue(header[i])]

Rows(header) == FullRows(header) \cup {ShortRow(header)}

RECURSIVE WriteLine(_, _)
WriteLine(cells, rune) ==
  IF cells = <<>> THEN <<>>
  ELSE IF Len(cells) = 1 THEN <<TextTok(cells[1])>>
  ELSE <<TextTok(cells[1]), RuneTok(rune)>> \o WriteLine(Tail(cells), rune)

WriteStream(header, rows, rune) ==
  <<WriteLine(header, rune)>> \o [i \in 1..Len(rows) |-> WriteLine(rows[i], rune)]

\* every stream of a header row and at most MaxRows rows, and the empty stream
Streams(rune) ==
  {<<>>} \cup UNION {{WriteStream(h, rows, rune) : rows \in SeqsUpTo(Rows(h), MaxRows)} : h \in Headers}

(***************************************************************************)
(* encoding/csv's Reader, as the parsers use it: Comma set, every other    *)
(* field at its default (FieldsPerRecord 0: every record must have as many *)
(* fields as the first; LazyQuotes off; blank lines skipped).              *)
(***************************************************************************)
RuneText(r) ==
  CASE r = 9 -> "\t"
    [] r = 59 -> ";"
    [] r = 124 -> "|"
    [] r = 94 -> "^"
    [] r = 44 -> ","
    [] OTHER -> "\\u0060"

TokText(tok) == IF IsRune(tok) THEN RuneText(tok.rune) ELSE tok.text

RECURSIVE FieldText(_)
FieldText(toks) == IF toks = <<>> THEN "" ELSE TokText(Head(toks)) \o FieldText(Tail(toks))

\* the fields of one line: the runs of tokens between occurrences of comma
RECURSIVE SplitLine(_, _)
SplitLine(line, comma) ==
  LET at == {i \in 1..Len(line) : line[i] = RuneTok(comma)}
  IN IF at = {} THEN <<line>>
     ELSE LET i == CHOOSE k \in at : \A m \in at : k <= m
          IN <<SubSeq(line, 1, i - 1)>> \o SplitLine(SubSeq(line, i + 1, Len(line)), comma)

HasBareQuote(toks) == \E i \in 1..Len(toks) : toks[i] = TextTok(BareQuoteCell)

\* Reader.Read from line pos on: the next record, or the error
RECURSIVE Read(_, _, _, _)
Read(lines, pos, comma, fieldsPerRecord) ==
  IF pos > Len(lines)
    THEN [err |-> "EOF", record |-> <<>>, next |-> pos, fieldsPerRecord |-> fieldsPerRecord]
  ELSE IF lines[pos] = <<>>
    THEN Read(lines, pos + 1, comma, fieldsPerRecord)
  ELSE
    LET split == SplitLine(lines[pos], comma)
        record == [i \in 1..Len(split) |-> FieldText(split[i])]
    IN IF \E i \in 1..Len(split) : HasBareQuote(split[i])
         THEN [err |-> "ErrBareQuote", record |-> <<>>, next |-> pos + 1,
               fieldsPerRecord |-> fieldsPerRecord]
       ELSE IF fieldsPerRecord = 0
         THEN [err |-> "nil", record |-> record, next |-> pos + 1,
               fieldsPerRecord |-> Len(record)]
       ELSE IF Len(record) # fieldsPerRecord
         THEN [err |-> "ErrFieldCount", record |-> record, next |-> pos + 1,
               fieldsPerRecord |-> fieldsPerRecord]
       ELSE [err |-> "nil", record |-> record, next |-> pos + 1,
             fieldsPerRecord |-> fieldsPerRecord]

\* strconv.ParseBool
ParseBoolTrue == {"1", "t", "T", "TRUE", "true", "True"}
ParseBoolFalse == {"0", "f", "F", "FALSE", "false", "False"}

(***************************************************************************)
(* The parsers of the v2 ingest Job.  A result is                          *)
(*   [kind |-> "ok", err |-> "nil", records |-> the records]               *)
(*   [kind |-> "error", err |-> the error, records |-> <<>>]   (nil, err)  *)
(*   [kind |-> "panic", ...]  a run-time panic: the call does not return.  *)
(***************************************************************************)
ParseOk(records) == [kind |-> "ok", err |-> "nil", records |-> records]
ParseErr(err) == [kind |-> "error", err |-> err, records |-> <<>>]
ParsePanic(what) == [kind |-> "panic", err |-> what, records |-> <<>>]

\* Job.headerPosition: the 0-based index of column in header, or -1
headerPosition(column, header) ==
  IF \E i \in 1..Len(header) : header[i] = column
    THEN (CHOOSE i \in 1..Len(header) :
            header[i] = column /\ \A k \in 1..(i - 1) : header[k] # column) - 1
    ELSE -1

\* Job.record: a Go map written in index order, so a later duplicate key wins
record(fields, values) ==
  [f \in Range(fields) |-> values[Max({i \in 1..Len(fields) : fields[i] = f})]]

\* a Go slice expression s[from:] (from is 0-based)
SliceFrom(s, from) == SubSeq(s, from + 1, Len(s))

\* SuccessfulLoop with the error of ParseBool dropped (created, _ := ...)
RECURSIVE SuccessfulLoop_IgnoresParseBool(_, _, _, _, _)
SuccessfulLoop_IgnoresParseBool(lines, pos, comma, fields, records) ==
  LET r == Read(lines, pos, comma, Len(fields))
      values == r.record
      createdAt == headerPosition(sfCreated, fields)
      idAt == headerPosition(sfID, fields)
  IN IF r.err = "EOF" THEN ParseOk(records)
     ELSE IF r.err # "nil" THEN ParseErr(r.err)
     ELSE IF createdAt = -1 THEN ParsePanic("index out of range [-1]")
     ELSE IF idAt = -1 THEN ParsePanic("index out of range [-1]")
     ELSE IF Len(fields) < 2 THEN ParsePanic("slice bounds out of range")
     ELSE SuccessfulLoop_IgnoresParseBool(lines, r.next, comma, fields,
            Append(records, [Created |-> values[createdAt + 1] \in ParseBoolTrue,
                             ID |-> values[idAt + 1],
                             Fields |-> record(SliceFrom(fields, 2), SliceFrom(values, 2))]))

RECURSIVE SuccessfulLoop(_, _, _, _, _)
SuccessfulLoop(lines, pos, comma, fields, records) ==
  LET r == Read(lines, pos, comma, Len(fields))
      values == r.record
      createdAt == headerPosition(sfCreated, fields)
      idAt == headerPosition(sfID, fields)
  IN IF r.err = "EOF" THEN ParseOk(records)
     ELSE IF r.err # "nil" THEN ParseErr(r.err)
     ELSE IF createdAt = -1 THEN ParsePanic("index out of range [-1]")
     ELSE IF values[createdAt + 1] \notin ParseBoolTrue \cup ParseBoolFalse
       THEN ParseErr("ParseBool: invalid syntax")
     ELSE IF idAt = -1 THEN ParsePanic("index out of range [-1]")
     ELSE IF Len(fields) < 2 THEN ParsePanic("slice bounds out of range")
     ELSE SuccessfulLoop(lines, r.next, comma, fields,
            Append(records, [Created |-> values[createdAt + 1] \in ParseBoolTrue,
                             ID |-> values[idAt + 1],
                             Fields |-> record(SliceFrom(fields, 2), SliceFrom(values, 2))]))

\* ParseSuccessfulResults without reader.Comma = j.delimiter(): the reader's default
ParseSuccessfulResults_DefaultComma(lines, comma) ==
  LET h == Read(lines, 1, RuneComma, 0)
  IN IF h.err # "nil" THEN ParseErr(h.err)
     ELSE SuccessfulLoop(lines, h.next, RuneComma, h.record, <<>>)

\* Job.ParseSuccessfulResults(stream), the reader's Comma being j.delimiter()
ParseSuccessfulResults(lines, comma) ==
  LET h == Read(lines, 1, comma, 0)
  IN IF h.err # "nil" THEN ParseErr(h.err)
     ELSE SuccessfulLoop(lines, h.next, comma, h.record, <<>>)

\* FailedLoop taking the error text from the sf__Id column
RECURSIVE FailedLoop_ErrorFromID(_, _, _, _, _)
FailedLoop_ErrorFromID(lines, pos, comma, fields, records) ==
  LET r == Read(lines, pos, comma, Len(fields))
      values == r.record
      errorAt == headerPosition(sfError, fields)
      idAt == headerPosition(sfID, fields)
  IN IF r.err = "EOF" THEN ParseOk(records)
     ELSE IF r.err # "nil" THEN ParseErr(r.err)
     ELSE IF errorAt = -1 THEN ParsePanic("index out of range [-1]")
     ELSE IF idAt = -1 THEN ParsePanic("index out of range [-1]")
     ELSE IF Len(fields) < 2 THEN ParsePanic("slice bounds out of range")
     ELSE FailedLoop_ErrorFromID(lines, r.next, comma, fields,
            Append(records, [Error |-> values[idAt + 1],
                             ID |-> values[idAt + 1],
                             Fields |-> record(SliceFrom(fields, 2), SliceFrom(values, 2))]))

RECURSIVE FailedLoop(_, _, _, _, _)
FailedLoop(lines, pos, comma, fields, records) ==
  LET r == Read(lines, pos, comma, Len(fields))
      values == r.record
      errorAt == headerPosition(sfError, fields)
      idAt == headerPosition(sfID, fields)
  IN IF r.err = "EOF" THEN ParseOk(records)
     ELSE IF r.err # "nil" THEN ParseErr(r.err)
     ELSE IF errorAt = -1 THEN ParsePanic("index out of range [-1]")
     ELSE IF idAt = -1 THEN ParsePanic("index out of range [-1]")
     ELSE IF Len(fields) < 2 THEN ParsePanic("slice bounds out of range")
     ELSE FailedLoop(lines, r.next, comma, fields,
            Append(records, [Error |-> values[errorAt + 1],
                             ID |-> values[idAt + 1],
                             Fields |-> record(SliceFrom(fields, 2), SliceFrom(values, 2))]))

\* Job.ParseFailedResults(stream)
ParseFailedResults(lines, comma) ==
  LET h == Read(lines, 1, comma, 0)
  IN IF h.err # "nil" THEN ParseErr(h.err)
     ELSE FailedLoop(lines, h.next, comma, h.record, <<>>)

\* UnprocessedLoop returning the records read so far beside the reader's error
RECURSIVE UnprocessedLoop_KeepsPartial(_, _, _, _, _)
UnprocessedLoop_KeepsPartial(lines, pos, comma, fields, records) ==
  LET r == Read(lines, pos, comma, Len(fields))
  IN IF r.err = "EOF" THEN ParseOk(records)
     ELSE IF r.err # "nil" THEN [kind |-> "error", err |-> r.err, records |-> records]
     ELSE UnprocessedLoop_KeepsPartial(lines, r.next, comma, fields,
            Append(records, [Fields |-> record(fields, r.record)]))

RECURSIVE UnprocessedLoop(_, _, _, _, _)
UnprocessedLoop(lines, pos, comma, fields, records) ==
  LET r == Read(lines, pos, comma, Len(fields))
  IN IF r.err = "EOF" THEN ParseOk(records)
     ELSE IF r.err # "nil" THEN ParseErr(r.err)
     ELSE UnprocessedLoop(lines, r.next, comma, fields,
            Append(records, [Fields |-> record(fields, r.record)]))

\* the reading part of Job.UnprocessedRecords, once the response is in hand
ParseUnprocessedRecords(lines, comma) ==
  LET h == Read(lines, 1, comma, 0)
  IN IF h.err # "nil" THEN ParseErr(h.err)
     ELSE UnprocessedLoop(lines, h.next, comma, h.record, <<>>)

(***************************************************************************)
(* The environment of the HTTP operations.                                 *)
(***************************************************************************)
\* session.ServiceURL() and the endpoint of the v2 ingest package
ServiceURL == "https://na1.salesforce.com/services/data/v52.0"
IngestEndpoint == "/jobs/ingest"

\* the statuses the server answers with
Statuses == {200, 201, 204, 400}

\* http.Client.Do on a request for CSV: a transport error, or a response
CsvRoundTrips(body) ==
  {[err |-> "transport"]} \cup {[err |-> "nil", status |-> s, body |-> body] : s \in Statuses}

\* the column delimiter names a job's snapshot can declare
ColumnDelimiters == {"", Backquote, Caret, Comma, Pipe, SemiColon, Tab}

\* the delimiters of the jobs whose results are parsed: the default and a declared one
ParseDelimiters == {"", Pipe}

(***************************************************************************)
(* The parsing operations of the v2 ingest Job.                            *)
(***************************************************************************)
ParseCall(op, result) ==
  [op |-> op, kind |-> result.kind, err |-> result.err, records |-> result.records]

\* Job.ParseSuccessfulResults(stream); ReadSuccessfulResults and SuccessfulRecords
\* hand it a local file or a response body
DoParseSuccessfulResults ==
  /\ call' = ParseCall("ParseSuccessfulResults",
                       ParseSuccessfulResults(stream, Job_delimiter(WriteResponse.ColumnDelimiter)))
  /\ sent' = <<>>
  /\ UNCHANGED <<WriteResponse, QueryResponse, Response, files, stream, pages, loop, resource>>

\* Job.ParseFailedResults(stream)
DoParseFailedResults ==
  /\ call' = ParseCall("ParseFailedResults",
                       ParseFailedResults(stream, Job_delimiter(WriteResponse.ColumnDelimiter)))
  /\ sent' = <<>>
  /\ UNCHANGED <<WriteResponse, QueryResponse, Response, files, stream, pages, loop, resource>>

\* Job.UnprocessedRecords(): GET the unprocessed records, then read them
UnprocessedRecords ==
  \E rt \in CsvRoundTrips(stream) :
    LET request == [method |-> "GET",
                    url |-> ServiceURL \o IngestEndpoint \o "/" \o WriteResponse.ID
                            \o "/unprocessedrecords/"]
        result == IF rt.err # "nil" THEN ParseErr("transport")
                  ELSE IF rt.status # StatusOK THEN ParseErr("api")
                  ELSE ParseUnprocessedRecords(rt.body, Job_delimiter(WriteResponse.ColumnDelimiter))
    IN /\ sent' = <<request>>
       /\ call' = ParseCall("UnprocessedRecords", result)
       /\ UNCHANGED <<WriteResponse, QueryResponse, Response, files, stream, pages, loop, resource>>

\* a job whose results are ready, and the result stream the server holds for it
InitParse ==
  /\ WriteResponse \in {[ID |-> "750A", ColumnDelimiter |-> d, State |-> JobComplete] :
                          d \in ParseDelimiters}
  /\ stream \in Streams(ServerDelimiter(WriteResponse.ColumnDelimiter))
  /\ QueryResponse = ZeroQueryResponse
  /\ Response = ZeroJobInfo
  /\ sent = <<>>
  /\ call = NoCall
  /\ files = <<>>
  /\ pages = <<>>
  /\ loop = [pc |-> "idle"]
  /\ resource = NilResource

NextParse ==
  \/ DoParseSuccessfulResults
  \/ DoParseFailedResults
  \/ UnprocessedRecords

SpecParse == InitParse /\ [][NextParse]_vars

(***************************************************************************)
(* Reading a stream the way its writer wrote it, for the statements about  *)
(* the parsers: the cells of a line are its pieces of text, which the      *)
(* documented delimiter of the job separates.                              *)
(***************************************************************************)
DocumentedRune == ServerDelimiter(WriteResponse.ColumnDelimiter)

IsWrittenLine(line) ==
  /\ Len(line) % 2 = 1
  /\ \A i \in 1..Len(line) :
       IF i % 2 = 1 THEN ~IsRune(line[i]) ELSE line[i] = RuneTok(DocumentedRune)

LineCells(line) == [i \in 1..((Len(line) + 1) \div 2) |-> line[2 * i - 1].text]

HeaderCells == LineCells(stream[1])

\* the data rows: the lines after the header that are not blank
DataRows == {k \in 2..Len(stream) : stream[k] # <<>>}

ColumnOf(name) == CHOOSE i \in 1..Len(HeaderCells) : HeaderCells[i] = name

HasColumn(name) == stream # <<>> /\ \E i \in 1..Len(HeaderCells) : HeaderCells[i] = name

\* a row the reader cannot take: a bare quote, or not as many values as the header
Malformed(k) ==
  \/ Len(LineCells(stream[k])) # Len(HeaderCells)
  \/ \E i \in 1..Len(LineCells(stream[k])) : LineCells(stream[k])[i] = BareQuoteCell

BoolLiterals == {"1", "t", "T", "TRUE", "true", "True", "0", "f", "F", "FALSE", "false", "False"}

CreatedCell(k) == LineCells(stream[k])[ColumnOf(sfCreated)]

\* the successful-results stream of the documentation: sf__Id, sf__Created, then
\* user columns, and every row a full row with a boolean in sf__Created
WellFormedSuccessful ==
  /\ stream # <<>>
  /\ \A k \in 1..Len(stream) : IsWrittenLine(stream[k])
  /\ Len(HeaderCells) >= 2
  /\ HeaderCells[1] = sfID
  /\ HeaderCells[2] = sfCreated
  /\ \A i \in 3..Len(HeaderCells) : HeaderCells[i] \notin {sfID, sfCreated, sfError}
  /\ \A k \in 2..Len(stream) : ~Malformed(k) /\ CreatedCell(k) \in BoolLiterals

\* the record the documentation gives for data row k of a successful-results stream
ExpectedSuccessful(k) ==
  LET cells == LineCells(stream[k])
  IN [Created |-> cells[2] \in {"1", "t", "T", "TRUE", "true", "True"},
      ID |-> cells[1],
      Fields |-> [name \in {HeaderCells[i] : i \in 3..Len(HeaderCells)} |-> cells[ColumnOf(name)]]]

\* C2: for a well-formed successful-results stream (header sf__Id, sf__Created, user
\* columns), ParseSuccessfulResults returns one record per data row, in row order,
\* with the row's ID, its parsed Created flag and its user columns keyed by header name.
C2_SuccessfulRecords ==
  (call.op = "ParseSuccessfulResults" /\ WellFormedSuccessful) =>
    /\ call.kind = "ok"
    /\ Len(call.records) = Len(stream) - 1
    /\ \A k \in 2..Len(stream) : call.records[k - 1] = ExpectedSuccessful(k)

C2_Witness ==
  /\ call.op = "ParseSuccessfulResults"
  /\ WellFormedSuccessful
  /\ HeaderCells = <<sfID, sfCreated, "Name">>
  /\ Len(stream) = 3
  /\ call.records[1] = [Created |-> TRUE, ID |-> "001", Fields |-> [Name |-> "Acme"]]
  /\ call.records[2].Created = FALSE

ParseOps == {"ParseSuccessfulResults", "ParseFailedResults", "UnprocessedRecords"}

\* the first malformed data row, when there is one
FirstMalformed == CHOOSE k \in DataRows : Malformed(k) /\ \A m \in DataRows : m < k => ~Malformed(m)

\* the parser gets as far as reading row k: no row before it stops the parser
ReachesRow(k) ==
  CASE call.op = "ParseSuccessfulResults" ->
         \/ \A m \in DataRows : m >= k
         \/ /\ HasColumn(sfID) /\ HasColumn(sfCreated)
            /\ \A m \in DataRows : m < k => CreatedCell(m) \in BoolLiterals
    [] call.op = "ParseFailedResults" ->
         \/ \A m \in DataRows : m >= k
         \/ HasColumn(sfID) /\ HasColumn(sfError)
    [] OTHER -> call.err \notin {"transport", "api"}

\* C4: in the three parsers, a stream with a malformed row (a bare quote, or not as
\* many values as the header) never yields records; and when the parser reads as far
\* as the first such row, the call returns the reader's error and no records.
C4_AllOrNothing ==
  (call.op \in ParseOps /\ stream # <<>> /\ \E k \in DataRows : Malformed(k)) =>
    /\ call.kind # "ok"
    /\ call.records = <<>>
    /\ ReachesRow(FirstMalformed) =>
         call.kind = "error" /\ call.err \in {"ErrFieldCount", "ErrBareQuote"}

C4_Witness ==
  /\ call.op = "UnprocessedRecords"
  /\ Len(stream) = 3
  /\ ~Malformed(2) /\ Malformed(3)
  /\ call.kind = "error" /\ call.err = "ErrFieldCount"
  /\ call.records = <<>>

\* the reserved columns a parser looks up in the header
LookedUp(op) ==
  CASE op = "ParseSuccessfulResults" -> {sfID, sfCreated}
    [] op = "ParseFailedResults" -> {sfID, sfError}
    [] OTHER -> {}

\* every row of the stream can be read and turned into a record: the reader takes it,
\* the looked-up columns are there, and a Created value is a boolean literal
RowsReadable ==
  \/ stream = <<>>
  \/ DataRows = {}
  \/ /\ \A k \in DataRows : ~Malformed(k)
     /\ \A c \in LookedUp(call.op) : HasColumn(c)
     /\ call.op = "ParseSuccessfulResults" => \A k \in DataRows : CreatedCell(k) \in BoolLiterals

\* the call read the stream (UnprocessedRecords fetches it first)
StreamRead == call.op \in ParseOps /\ call.err \notin {"transport", "api"}

\* C16 (as stated): when the stream ends at a row boundary the three parsers finish
\* without error and return the records read so far, one per data row; this includes
\* a stream of a header row only and an entirely empty stream.
C16_EndOfInputIsNoError ==
  (StreamRead /\ RowsReadable) =>
    /\ call.kind = "ok"
    /\ Len(call.records) = Cardinality(DataRows)

\* C16 (what the code does): the same, for a stream that has a header row.
C16_EndAfterHeaderIsNoError ==
  (StreamRead /\ RowsReadable /\ stream # <<>>) =>
    /\ call.kind = "ok"
    /\ Len(call.records) = Cardinality(DataRows)

\* an entirely empty stream: the read of the header returns io.EOF, which the call
\* returns as its error
C16_Witness ==
  /\ call.op = "ParseFailedResults"
  /\ stream = <<>>
  /\ call.kind = "error" /\ call.err = "EOF"

\* C17 (as stated): when a reserved column that ParseSuccessfulResults or
\* ParseFailedResults looks up is absent from the header row, the call returns an
\* error; position -1 is never used as an index (no index-out-of-range panic).
C17_MissingColumnIsAnError ==
  (/\ call.op \in {"ParseSuccessfulResults", "ParseFailedResults"}
   /\ stream # <<>>
   /\ \E c \in LookedUp(call.op) : ~HasColumn(c)) =>
    call.kind = "error"

\* C17 (what the code does): with such a header, the first data row the reader takes
\* is indexed at -1 and the call panics; with no data row it returns no records and
\* no error.
C17_MissingColumnPanics ==
  (/\ call.op \in {"ParseSuccessfulResults", "ParseFailedResults"}
   /\ stream # <<>>
   /\ \E c \in LookedUp(call.op) : ~HasColumn(c)) =>
    IF DataRows = {} THEN call.kind = "ok" /\ call.records = <<>>
    ELSE LET first == CHOOSE k \in DataRows : \A m \in DataRows : k <= m
         IN IF Malformed(first) THEN call.kind = "error"
            ELSE IF /\ call.op = "ParseSuccessfulResults" /\ HasColumn(sfCreated)
                    /\ CreatedCell(first) \notin BoolLiterals
              THEN call.kind = "error"
            ELSE call.kind = "panic" /\ call.records = <<>>

C17_Witness ==
  /\ call.op = "ParseSuccessfulResults"
  /\ Len(stream) = 2 /\ ~Malformed(2)
  /\ HeaderCells = <<sfCreated, "Name">>
  /\ call.kind = "panic"

ReservedColumns == {sfID, sfCreated, sfError}

C21_FieldsAreColumnsFromThird ==
  /\ (/\ call.op \in {"ParseSuccessfulResults", "ParseFailedResults"}
      /\ call.kind = "ok"
      /\ stream # <<>>) =>
       \A i \in 1..Len(call.records) :
         DOMAIN call.records[i].Fields = {HeaderCells[n] : n \in 3..Len(HeaderCells)}
  /\ (call.op = "UnprocessedRecords" /\ call.kind = "ok" /\ stream # <<>>) =>
       \A i \in 1..Len(call.records) :
         DOMAIN call.records[i].Fields = Range(HeaderCells)

WellFormedFailed ==
  /\ stream # <<>>
  /\ \A k \in 1..Len(stream) : IsWrittenLine(stream[k])
  /\ Len(HeaderCells) >= 2
  /\ HeaderCells[1] = sfID
  /\ HeaderCells[2] = sfError
  /\ \A i \in 3..Len(HeaderCells) : HeaderCells[i] \notin ReservedColumns
  /\ \A k \in 2..Len(stream) : ~Malformed(k)

\* the record the documentation gives for data row k of a failed-results stream
ExpectedFailed(k) ==
  LET cells == LineCells(stream[k])
  IN [Error |-> cells[2],
      ID |-> cells[1],
      Fields |-> [name \in {HeaderCells[i] : i \in 3..Len(HeaderCells)} |-> cells[ColumnOf(name)]]]

DeclaredDelimiters == ColumnDelimiters \cup {"COLON", "tab"}

\* Job.delimiter()
DoJobDelimiter ==
  /\ call' = [op |-> "Job.delimiter", kind |-> "ok", err |-> "nil",
              ret |-> Job_delimiter(WriteResponse.ColumnDelimiter)]
  /\ sent' = <<>>
  /\ UNCHANGED <<WriteResponse, QueryResponse, Response, files, stream, pages, loop, resource>>

\* QueryJob.delimiter()
DoQueryJobDelimiter ==
  /\ call' = [op |-> "QueryJob.delimiter", kind |-> "ok", err |-> "nil",
              ret |-> QueryJob_delimiter(QueryResponse.ColumnDelimiter)]
  /\ sent' = <<>>
  /\ UNCHANGED <<WriteResponse, QueryResponse, Response, files, stream, pages, loop, resource>>

InitDelimiter ==
  /\ WriteResponse \in {[ID |-> "750A", ColumnDelimiter |-> d, State |-> Open] :
                          d \in DeclaredDelimiters}
  /\ QueryResponse \in {[ID |-> "750Q", ColumnDelimiter |-> d, State |-> Open] :
                          d \in DeclaredDelimiters}
  /\ Response = ZeroJobInfo
  /\ sent = <<>>
  /\ call = NoCall
  /\ files = <<>>
  /\ stream = <<>>
  /\ pages = <<>>
  /\ loop = [pc |-> "idle"]
  /\ resource = NilResource

NextDelimiter ==
  \/ DoJobDelimiter
  \/ DoQueryJobDelimiter

SpecDelimiter == InitDelimiter /\ [][NextDelimiter]_vars

\* C1: Job.delimiter and QueryJob.delimiter resolve the declared ColumnDelimiter as
\* documented: TAB -> tab (9), SEMICOLON -> ';' (59), PIPE -> '|' (124), CARET -> '^'
\* (94), BACKQUOTE -> '`' (96), COMMA -> ',' (44), and any other value, the empty
\* string included, -> ',' (44).
C1_DelimiterMapping ==
  /\ call.op = "Job.delimiter" => call.ret = ServerDelimiter(WriteResponse.ColumnDelimiter)
  /\ call.op = "QueryJob.delimiter" => call.ret = ServerDelimiter(QueryResponse.ColumnDelimiter)

C1_Witness ==
  /\ call.op = "Job.delimiter"
  /\ WriteResponse.ColumnDelimiter = "BACKQUOTE"
  /\ call.ret = 96

(***************************************************************************)
(* Job creation: option validation and defaulting, then the create call.   *)
(***************************************************************************)
QueryEndpoint == "/jobs/query"
AsyncServiceURL == "https://na1.salesforce.com/services/async/52.0/"
bulkEndpoint == "job"

\* the job IDs the server assigns
ServerJobIDs == {"750A", "750B"}

\* http.Client.Do on a request for JSON: a transport error, or a response with a
\* status and a body that decodes to value or does not decode
JsonRoundTrips(values) ==
  {[err |-> "transport"]} \cup
  {[err |-> "nil", status |-> s, decodes |-> d, value |-> v] :
     s \in Statuses, d \in BOOLEAN, v \in values}

ErrOperationRequired == "bulk job: operation is required"
ErrExternalIDRequired == "bulk job: external id field name is required for upsert operation"
ErrObjectRequired == "bulk job: object is required"
ErrQueryRequired == "bulk job: query is required"

Default(value, default) == IF value = "" THEN default ELSE value

\* Job.formatOptions with the delimiter set whatever the caller gave
Job_formatOptions_ForcesComma(options) ==
  IF options.Operation = "" THEN [err |-> ErrOperationRequired, options |-> options]
  ELSE IF options.Operation = Upsert /\ options.ExternalIDFieldName = ""
    THEN [err |-> ErrExternalIDRequired, options |-> options]
  ELSE IF options.Object = "" THEN [err |-> ErrObjectRequired, options |-> options]
  ELSE [err |-> "nil",
        options |-> [options EXCEPT !.LineEnding = Default(@, Linefeed),
                                    !.ContentType = Default(@, CSV),
                                    !.ColumnDelimiter = Comma]]

\* Job.formatOptions requiring the external ID field for every operation
Job_formatOptions_ExternalIDAlways(options) ==
  IF options.Operation = "" THEN [err |-> ErrOperationRequired, options |-> options]
  ELSE IF options.ExternalIDFieldName = ""
    THEN [err |-> ErrExternalIDRequired, options |-> options]
  ELSE IF options.Object = "" THEN [err |-> ErrObjectRequired, options |-> options]
  ELSE [err |-> "nil",
        options |-> [options EXCEPT !.LineEnding = Default(@, Linefeed),
                                    !.ContentType = Default(@, CSV),
                                    !.ColumnDelimiter = Default(@, Comma)]]

\* (v2 ingest) Job.formatOptions(&options): the error, and the options as it leaves them
Job_formatOptions(options) ==
  IF options.Operation = "" THEN [err |-> ErrOperationRequired, options |-> options]
  ELSE IF options.Operation = Upsert /\ options.ExternalIDFieldName = ""
    THEN [err |-> ErrExternalIDRequired, options |-> options]
  ELSE IF options.Object = "" THEN [err |-> ErrObjectRequired, options |-> options]
  ELSE [err |-> "nil",
        options |-> [options EXCEPT !.LineEnding = Default(@, Linefeed),
                                    !.ContentType = Default(@, CSV),
                                    !.ColumnDelimiter = Default(@, Comma)]]

\* (v2 ingest) Job.response(request): the decoded WriteResponse, or the zero value
\* and the error
Job_response(rt) ==
  IF rt.err # "nil" THEN [value |-> ZeroWriteResponse, err |-> "transport"]
  ELSE IF rt.status # StatusOK THEN [value |-> ZeroWriteResponse, err |-> "api"]
  ELSE IF ~rt.decodes THEN [value |-> ZeroWriteResponse, err |-> "decode"]
  ELSE [value |-> rt.value, err |-> "nil"]

\* (v2 ingest) Job.createCallout(options): the POST it builds
Job_createRequest(options) ==
  [method |-> "POST", url |-> ServiceURL \o IngestEndpoint, body |-> options]

\* Job.create sending the create request before it validates the options
Job_create_CalloutFirst(j, options, rt) ==
  LET f == Job_formatOptions(options)
      r == Job_response(rt)
  IN IF f.err # "nil"
       THEN [WriteResponse |-> j, err |-> f.err, sent |-> <<Job_createRequest(options)>>]
       ELSE [WriteResponse |-> r.value, err |-> r.err,
             sent |-> <<Job_createRequest(f.options)>>]

\* (v2 ingest) Job.create(options) on job j (its WriteResponse), the round trip
\* answering rt: the job's WriteResponse afterwards, the error, the requests sent
Job_create(j, options, rt) ==
  LET f == Job_formatOptions(options)
      r == Job_response(rt)
  IN IF f.err # "nil"
       THEN [WriteResponse |-> j, err |-> f.err, sent |-> <<>>]
       ELSE [WriteResponse |-> r.value, err |-> r.err,
             sent |-> <<Job_createRequest(f.options)>>]

\* QueryJob.formatOptions(&options)
QueryJob_formatOptions(options) ==
  IF options.Query = "" THEN [err |-> ErrQueryRequired, options |-> options]
  ELSE [err |-> "nil",
        options |-> [options EXCEPT !.LineEnding = Default(@, Linefeed),
                                    !.ContentType = Default(@, CSV),
                                    !.ColumnDelimiter = Default(@, Comma),
                                    !.Operation = Default(@, Query)]]

\* QueryJob.response decoding straight into j.QueryResponse: an undecodable body
\* leaves the zero value there
QueryJob_response_DecodesInPlace(j, rt) ==
  IF rt.err # "nil" THEN [value |-> ZeroQueryResponse, err |-> "transport", QueryResponse |-> j]
  ELSE IF rt.status # StatusOK THEN [value |-> ZeroQueryResponse, err |-> "api", QueryResponse |-> j]
  ELSE IF ~rt.decodes
    THEN [value |-> ZeroQueryResponse, err |-> "decode", QueryResponse |-> ZeroQueryResponse]
  ELSE [value |-> rt.value, err |-> "nil", QueryResponse |-> rt.value]

\* QueryJob.response(request) on job j (its QueryResponse): what it returns, and the
\* job's QueryResponse afterwards (stored only once the body has decoded)
QueryJob_response(j, rt) ==
  IF rt.err # "nil" THEN [value |-> ZeroQueryResponse, err |-> "transport", QueryResponse |-> j]
  ELSE IF rt.status # StatusOK THEN [value |-> ZeroQueryResponse, err |-> "api", QueryResponse |-> j]
  ELSE IF ~rt.decodes THEN [value |-> ZeroQueryResponse, err |-> "decode", QueryResponse |-> j]
  ELSE [value |-> rt.value, err |-> "nil", QueryResponse |-> rt.value]

QueryJob_createRequest(options) ==
  [method |-> "POST", url |-> ServiceURL \o QueryEndpoint, body |-> options]

\* QueryJob.create(options): j.QueryResponse, err = j.createCallout(options)
QueryJob_create(j, options, rt) ==
  LET f == QueryJob_formatOptions(options)
      r == QueryJob_response(j, rt)
  IN IF f.err # "nil"
       THEN [QueryResponse |-> j, err |-> f.err, sent |-> <<>>]
       ELSE [QueryResponse |-> r.value, err |-> r.err,
             sent |-> <<QueryJob_createRequest(f.options)>>]

\* (v1) Job.formatOptions(options, &header): the error, and the header options as it
\* leaves them (options is passed by value and is not written)
V1Job_formatOptions(options, header) ==
  IF options.Operation = "" THEN [err |-> ErrOperationRequired, header |-> header]
  ELSE IF options.Operation = Upsert /\ options.ExternalIDFieldName = ""
    THEN [err |-> ErrExternalIDRequired, header |-> header]
  ELSE IF options.Object = "" THEN [err |-> ErrObjectRequired, header |-> header]
  ELSE [err |-> "nil",
        header |-> [header EXCEPT !.LineEnding = Default(@, Linefeed),
                                  !.ContentType = Default(@, CSV),
                                  !.PKChunking = Default(@, "TRUE")]]

\* (v1) Job.response(request)
V1Job_response(rt) ==
  IF rt.err # "nil" THEN [value |-> ZeroJobInfo, err |-> "transport"]
  ELSE IF rt.status # StatusOK THEN [value |-> ZeroJobInfo, err |-> "api"]
  ELSE IF ~rt.decodes THEN [value |-> ZeroJobInfo, err |-> "decode"]
  ELSE [value |-> rt.value, err |-> "nil"]

\* (v1) Job.createCallout(options, header): the POST it builds; the header options
\* travel as the Sforce-Enable-PKChunking, Sforce-Line-Ending and Content-Type headers
V1Job_createRequest(options, header) ==
  [method |-> "POST", url |-> AsyncServiceURL \o bulkEndpoint, body |-> options,
   PKChunking |-> header.PKChunking, LineEnding |-> header.LineEnding,
   ContentType |-> header.ContentType]

\* (v1) Job.create(options, header)
V1Job_create(j, options, header, rt) ==
  LET f == V1Job_formatOptions(options, header)
      r == V1Job_response(rt)
  IN IF f.err # "nil"
       THEN [Response |-> j, err |-> f.err, sent |-> <<>>]
       ELSE [Response |-> r.value, err |-> r.err,
             sent |-> <<V1Job_createRequest(options, f.header)>>]

\* the job the server creates for a create request: it assigns the ID, opens the job
\* and echoes the declared delimiter
ServerCreatedV2(body) ==
  {[ID |-> id, ColumnDelimiter |-> body.ColumnDelimiter, State |-> Open] : id \in ServerJobIDs}

ServerCreatedV1 == {[ID |-> id, State |-> Open] : id \in ServerJobIDs}

Outcome(err) == IF err = "nil" THEN "ok" ELSE "error"

\* (v2 ingest) Resource.CreateJob(options): Job.create on a new Job
IngestCreateJob(optionSet) ==
  /\ WriteResponse = ZeroWriteResponse
  /\ \E options \in optionSet :
       \E rt \in JsonRoundTrips(ServerCreatedV2(Job_formatOptions(options).options)) :
         LET c == Job_create(WriteResponse, options, rt)
         IN /\ WriteResponse' = c.WriteResponse
            /\ sent' = c.sent
            /\ call' = [op |-> "Job.create", kind |-> Outcome(c.err), err |-> c.err,
                        options |-> options]
  /\ UNCHANGED <<QueryResponse, Response, files, stream, pages, loop, resource>>

\* (v2 query) Resource.CreateJob(options): QueryJob.create on a new QueryJob
QueryCreateJob(optionSet) ==
  /\ QueryResponse = ZeroQueryResponse
  /\ \E options \in optionSet :
       \E rt \in JsonRoundTrips(ServerCreatedV2(QueryJob_formatOptions(options).options)) :
         LET c == QueryJob_create(QueryResponse, options, rt)
         IN /\ QueryResponse' = c.QueryResponse
            /\ sent' = c.sent
            /\ call' = [op |-> "QueryJob.create", kind |-> Outcome(c.err), err |-> c.err,
                        options |-> options]
  /\ UNCHANGED <<WriteResponse, Response, files, stream, pages, loop, resource>>

\* (v1) Job.create(options, header) on a new Job
V1CreateJob(optionSet, headerSet) ==
  /\ Response = ZeroJobInfo
  /\ \E options \in optionSet, header \in headerSet :
       \E rt \in JsonRoundTrips(ServerCreatedV1) :
         LET c == V1Job_create(Response, options, header, rt)
         IN /\ Response' = c.Response
            /\ sent' = c.sent
            /\ call' = [op |-> "bulkv1.Job.create", kind |-> Outcome(c.err), err |-> c.err,
                        options |-> options, header |-> header]
  /\ UNCHANGED <<WriteResponse, QueryResponse, files, stream, pages, loop, resource>>

\* the options the callers pass
IngestOptions ==
  [Operation : {"", Insert, Upsert}, ExternalIDFieldName : {"", "External_Id__c"},
   Object : {"", "Account"}, LineEnding : {"", CarriageReturnLinefeed},
   ContentType : {"", CSV, "JSON"}, ColumnDelimiter : {"", Pipe}]

QueryOptions ==
  [Query : {"", "SELECT Id FROM Account"}, LineEnding : {"", CarriageReturnLinefeed},
   ContentType : {"", CSV, "JSON"}, ColumnDelimiter : {"", Pipe},
   Operation : {"", QueryAll}]

V1Options ==
  [Operation : {"", Insert, Upsert}, ExternalIDFieldName : {"", "External_Id__c"},
   Object : {"", "Account"}, ContentType : {""}]

V1HeaderOptions ==
  [LineEnding : {"", CarriageReturnLinefeed}, ContentType : {"", "XML"},
   Client : {""}, PKChunking : {"", "chunkSize=1000"}]

InitCreate ==
  /\ WriteResponse = ZeroWriteResponse
  /\ QueryResponse = ZeroQueryResponse
  /\ Response = ZeroJobInfo
  /\ sent = <<>>
  /\ call = NoCall
  /\ files = <<>>
  /\ stream = <<>>
  /\ pages = <<>>
  /\ loop = [pc |-> "idle"]
  /\ resource = NilResource

\* one create call, of any kind and with any options, on a new job
CallIngestCreate == call = NoCall /\ IngestCreateJob(IngestOptions)
CallQueryCreate == call = NoCall /\ QueryCreateJob(QueryOptions)
CallV1Create == call = NoCall /\ V1CreateJob(V1Options, V1HeaderOptions)

NextCreate ==
  \/ CallIngestCreate
  \/ CallQueryCreate
  \/ CallV1Create

SpecCreate == InitCreate /\ [][NextCreate]_vars

(***************************************************************************)
(* Statements about creation.                                              *)
(***************************************************************************)
ValidationErrors ==
  {ErrOperationRequired, ErrExternalIDRequired, ErrObjectRequired, ErrQueryRequired}

IngestCreates == {"Job.create", "bulkv1.Job.create"}

\* the options the documentation calls invalid
InvalidIngestOptions(o) ==
  \/ o.Operation = ""
  \/ o.Object = ""
  \/ o.Operation = "upsert" /\ o.ExternalIDFieldName = ""

InvalidCreate ==
  \/ call.op \in IngestCreates /\ InvalidIngestOptions(call.options)
  \/ call.op = "QueryJob.create" /\ call.options.Query = ""

\* C5: a create call (v2 ingest, v2 query, v1) whose options fail validation returns
\* an error and has sent no HTTP request.
C5_ValidatesBeforeNetwork ==
  InvalidCreate => call.kind = "error" /\ call.err \in ValidationErrors /\ sent = <<>>

C5_Witness ==
  /\ call.op = "Job.create"
  /\ call.options.Operation = Insert /\ call.options.Object = ""
  /\ call.err = ErrObjectRequired
  /\ sent = <<>>

\* C6: in the ingest creates (v2 and v1), with Operation and Object non-empty, an
\* empty ExternalIDFieldName is a validation error exactly when Operation is upsert.
C6_ExternalIDIffUpsert ==
  (/\ call.op \in IngestCreates
   /\ call.options.Operation # "" /\ call.options.Object # ""
   /\ call.options.ExternalIDFieldName = "") =>
    (call.err \in ValidationErrors <=> call.options.Operation = "upsert")

C6_Witness ==
  /\ call.op = "Job.create"
  /\ call.options.Operation = Insert /\ call.options.Object # ""
  /\ call.options.ExternalIDFieldName = ""
  /\ call.kind = "ok"

\* the header options a v1 create sent
SentHeader == [call.header EXCEPT !.LineEnding = sent[1].LineEnding,
                                  !.ContentType = sent[1].ContentType,
                                  !.PKChunking = sent[1].PKChunking]

PlainRoundTrips ==
  {[err |-> "transport"]} \cup {[err |-> "nil", status |-> s] : s \in Statuses}

ErrUnableToDelete == "job error: unable to delete job"

\* Job.Delete taking 200 for the status of a deleted job
Job_Delete_Expects200(j, rt) ==
  LET request == [method |-> "DELETE", url |-> ServiceURL \o IngestEndpoint \o "/" \o j.ID]
  IN IF rt.err # "nil" THEN [WriteResponse |-> j, err |-> "transport", sent |-> <<request>>]
     ELSE IF rt.status # StatusOK
       THEN [WriteResponse |-> j, err |-> ErrUnableToDelete, sent |-> <<request>>]
     ELSE [WriteResponse |-> j, err |-> "nil", sent |-> <<request>>]

\* (v2 ingest) Job.Delete() on job j: the job's WriteResponse afterwards, the error,
\* the requests sent
Job_Delete(j, rt) ==
  LET request == [method |-> "DELETE", url |-> ServiceURL \o IngestEndpoint \o "/" \o j.ID]
  IN IF rt.err # "nil" THEN [WriteResponse |-> j, err |-> "transport", sent |-> <<request>>]
     ELSE IF rt.status # StatusNoContent
       THEN [WriteResponse |-> j, err |-> ErrUnableToDelete, sent |-> <<request>>]
     ELSE [WriteResponse |-> j, err |-> "nil", sent |-> <<request>>]

\* QueryJob.Delete()
QueryJob_Delete(j, rt) ==
  LET request == [method |-> "DELETE", url |-> ServiceURL \o QueryEndpoint \o "/" \o j.ID]
  IN IF rt.err # "nil" THEN [QueryResponse |-> j, err |-> "transport", sent |-> <<request>>]
     ELSE IF rt.status # StatusNoContent
       THEN [QueryResponse |-> j, err |-> ErrUnableToDelete, sent |-> <<request>>]
     ELSE [QueryResponse |-> j, err |-> "nil", sent |-> <<request>>]

\* (v1) Job.Delete(); the v1 job addresses the job through session.ServiceURL()
V1Job_Delete(j, rt) ==
  LET request == [method |-> "DELETE", url |-> ServiceURL \o bulkEndpoint \o "/" \o j.ID]
  IN IF rt.err # "nil" THEN [Response |-> j, err |-> "transport", sent |-> <<request>>]
     ELSE IF rt.status # StatusNoContent
       THEN [Response |-> j, err |-> ErrUnableToDelete, sent |-> <<request>>]
     ELSE [Response |-> j, err |-> "nil", sent |-> <<request>>]

\* Job.Upload taking 200 for the status of an accepted payload
Job_Upload_Expects200(j, body, rt) ==
  LET request == [method |-> "PUT",
                  url |-> ServiceURL \o IngestEndpoint \o "/" \o j.ID \o "/batches",
                  ContentType |-> "text/csv", body |-> body]
  IN IF rt.err # "nil" THEN [err |-> "transport", sent |-> <<request>>]
     ELSE IF rt.status # StatusOK THEN [err |-> "api", sent |-> <<request>>]
     ELSE [err |-> "nil", sent |-> <<request>>]

\* (v2 ingest) Job.Upload(body): "api" is the error sfdc.HandleError builds
Job_Upload(j, body, rt) ==
  LET request == [method |-> "PUT",
                  url |-> ServiceURL \o IngestEndpoint \o "/" \o j.ID \o "/batches",
                  ContentType |-> "text/csv", body |-> body]
  IN IF rt.err # "nil" THEN [err |-> "transport", sent |-> <<request>>]
     ELSE IF rt.status # StatusCreated THEN [err |-> "api", sent |-> <<request>>]
     ELSE [err |-> "nil", sent |-> <<request>>]

ZeroBatchInfo == [ID |-> "", JobID |-> "", State |-> ""]

\* (v1) Job.createBatch(body): the BatchInfo and the error
V1Job_createBatch(j, body, rt) ==
  LET request == [method |-> "POST",
                  url |-> AsyncServiceURL \o bulkEndpoint \o "/" \o j.ID \o "/batch",
                  ContentType |-> "text/csv", body |-> body]
  IN IF rt.err # "nil" THEN [value |-> ZeroBatchInfo, err |-> "transport", sent |-> <<request>>]
     ELSE IF rt.status # StatusCreated
       THEN [value |-> ZeroBatchInfo, err |-> "api", sent |-> <<request>>]
     ELSE IF ~rt.decodes
       THEN [value |-> ZeroBatchInfo, err |-> "decode", sent |-> <<request>>]
     ELSE [value |-> rt.value, err |-> "nil", sent |-> <<request>>]

\* the payloads the callers submit
Payloads == {"Name\nAcme\n"}

\* the batch the server queues for a payload
ServerBatches(jobID) == {[ID |-> "751A", JobID |-> jobID, State |-> "Queued"]}

\* (v2 ingest) Job.Delete()
IngestDelete ==
  /\ WriteResponse # ZeroWriteResponse
  /\ \E rt \in PlainRoundTrips :
       LET d == Job_Delete(WriteResponse, rt)
       IN /\ WriteResponse' = d.WriteResponse
          /\ sent' = d.sent
          /\ call' = [op |-> "Job.Delete", kind |-> Outcome(d.err), err |-> d.err, rt |-> rt]
  /\ UNCHANGED <<QueryResponse, Response, files, stream, pages, loop, resource>>

\* QueryJob.Delete()
QueryDelete ==
  /\ QueryResponse # ZeroQueryResponse
  /\ \E rt \in PlainRoundTrips :
       LET d == QueryJob_Delete(QueryResponse, rt)
       IN /\ QueryResponse' = d.QueryResponse
          /\ sent' = d.sent
          /\ call' = [op |-> "QueryJob.Delete", kind |-> Outcome(d.err), err |-> d.err, rt |-> rt]
  /\ UNCHANGED <<WriteResponse, Response, files, stream, pages, loop, resource>>

\* (v1) Job.Delete()
V1Delete ==
  /\ Response # ZeroJobInfo
  /\ \E rt \in PlainRoundTrips :
       LET d == V1Job_Delete(Response, rt)
       IN /\ Response' = d.Response
          /\ sent' = d.sent
          /\ call' = [op |-> "bulkv1.Job.Delete", kind |-> Outcome(d.err), err |-> d.err,
                      rt |-> rt]
  /\ UNCHANGED <<WriteResponse, QueryResponse, files, stream, pages, loop, resource>>

\* (v2 ingest) Job.Upload(body)
Upload ==
  /\ WriteResponse # ZeroWriteResponse
  /\ \E body \in Payloads, rt \in PlainRoundTrips :
       LET u == Job_Upload(WriteResponse, body, rt)
       IN /\ sent' = u.sent
          /\ call' = [op |-> "Job.Upload", kind |-> Outcome(u.err), err |-> u.err, rt |-> rt]
  /\ UNCHANGED <<WriteResponse, QueryResponse, Response, files, stream, pages, loop, resource>>

\* (v1) Job.createBatch(body)
CreateBatch ==
  /\ Response # ZeroJobInfo
  /\ \E body \in Payloads, rt \in JsonRoundTrips(ServerBatches(Response.ID)) :
       LET b == V1Job_createBatch(Response, body, rt)
       IN /\ sent' = b.sent
          /\ call' = [op |-> "bulkv1.Job.createBatch", kind |-> Outcome(b.err), err |-> b.err,
                      rt |-> rt, ret |-> b.value]
  /\ UNCHANGED <<WriteResponse, QueryResponse, Response, files, stream, pages, loop, resource>>

\* the options of the jobs whose operations are followed: a valid set, a declared
\* delimiter or none
LifecycleIngestOptions ==
  [Operation : {Insert}, ExternalIDFieldName : {""}, Object : {"Account"},
   LineEnding : {""}, ContentType : {""}, ColumnDelimiter : {"", Pipe}]

LifecycleQueryOptions ==
  [Query : {"SELECT Id FROM Account"}, LineEnding : {""}, ContentType : {""},
   ColumnDelimiter : {"", Pipe}, Operation : {""}]

LifecycleV1Options ==
  [Operation : {Insert}, ExternalIDFieldName : {""}, Object : {"Account"}, ContentType : {""}]

LifecycleV1HeaderOptions ==
  [LineEnding : {""}, ContentType : {""}, Client : {""}, PKChunking : {""}]

\* a behaviour follows one job: the jobs are separate objects and no operation on
\* one reads or writes another
NoJobYet ==
  /\ WriteResponse = ZeroWriteResponse
  /\ QueryResponse = ZeroQueryResponse
  /\ Response = ZeroJobInfo

CreateIngest == NoJobYet /\ IngestCreateJob(LifecycleIngestOptions)
CreateQuery == NoJobYet /\ QueryCreateJob(LifecycleQueryOptions)
CreateV1 == NoJobYet /\ V1CreateJob(LifecycleV1Options, LifecycleV1HeaderOptions)

(***************************************************************************)
(* State changes and reads of a created job.                               *)
(***************************************************************************)
\* the states the server may report for a job
ServerStates == {Open, UpdateComplete, Aborted, JobComplete}

\* the job the server describes in its answer about job j
ServerJobV2(j) == {[j EXCEPT !.State = s] : s \in ServerStates}
ServerJobV1(j) == {[j EXCEPT !.State = s] : s \in {Open, Closed, Aborted}}
\* whatever an answer may contain: the job in some state, or another job's ID
AnyJobV2(j) == ServerJobV2(j) \cup {[j EXCEPT !.ID = id] : id \in ServerJobIDs \ {j.ID}}

\* the PATCH setState builds
SetStateRequest(endpoint, id, state) ==
  [method |-> "PATCH", url |-> ServiceURL \o endpoint \o "/" \o id, body |-> [state |-> state]]

\* Job.setState storing the answer in the job, as QueryJob.response does
Job_setState_StoresAnswer(j, state, rt) ==
  LET r == Job_response(rt)
  IN [value |-> r.value, err |-> r.err,
      WriteResponse |-> IF r.err = "nil" THEN r.value ELSE j,
      sent |-> <<SetStateRequest(IngestEndpoint, j.ID, state)>>]

\* (v2 ingest) Job.setState(state) on job j: the returned WriteResponse, the error,
\* the job's WriteResponse afterwards
Job_setState(j, state, rt) ==
  LET r == Job_response(rt)
  IN [value |-> r.value, err |-> r.err, WriteResponse |-> j,
      sent |-> <<SetStateRequest(IngestEndpoint, j.ID, state)>>]

\* QueryJob.setState(state) on job j
QueryJob_setState(j, state, rt) ==
  LET r == QueryJob_response(j, rt)
  IN [value |-> r.value, err |-> r.err, QueryResponse |-> r.QueryResponse,
      sent |-> <<SetStateRequest(QueryEndpoint, j.ID, state)>>]

\* (v1) Job.setState(state) on job j
V1Job_setState(j, state, rt) ==
  LET r == V1Job_response(rt)
  IN [value |-> r.value, err |-> r.err, Response |-> j,
      sent |-> <<SetStateRequest(bulkEndpoint, j.ID, state)>>]

ZeroInfo == [WriteResponse |-> ZeroWriteResponse, NumberRecordsProcessed |-> 0]
ZeroQueryInfo == [QueryResponse |-> ZeroQueryResponse, NumberRecordsProcessed |-> 0]

\* the GET fetchInfo builds
InfoRequest(endpoint, id) ==
  [method |-> "GET", url |-> ServiceURL \o endpoint \o "/" \o id, Accept |-> "application/json"]

\* Job.Info answering from the stored WriteResponse
Job_Info_FromSnapshot(j, rt) ==
  [value |-> [WriteResponse |-> j, NumberRecordsProcessed |-> 0], err |-> "nil",
   WriteResponse |-> j, sent |-> <<>>]

\* (v2 ingest) Job.Info() on job j: fetchInfo(j.WriteResponse.ID), infoResponse
Job_Info(j, rt) ==
  LET request == InfoRequest(IngestEndpoint, j.ID)
  IN IF rt.err # "nil"
       THEN [value |-> ZeroInfo, err |-> "transport", WriteResponse |-> j, sent |-> <<request>>]
     ELSE IF rt.status # StatusOK
       THEN [value |-> ZeroInfo, err |-> "api", WriteResponse |-> j, sent |-> <<request>>]
     ELSE IF ~rt.decodes
       THEN [value |-> ZeroInfo, err |-> "decode", WriteResponse |-> j, sent |-> <<request>>]
     ELSE [value |-> rt.value, err |-> "nil", WriteResponse |-> j, sent |-> <<request>>]

\* QueryJob.Info() on job j: infoResponse stores value.QueryResponse
QueryJob_Info(j, rt) ==
  LET request == InfoRequest(QueryEndpoint, j.ID)
  IN IF rt.err # "nil"
       THEN [value |-> ZeroQueryInfo, err |-> "transport", QueryResponse |-> j,
             sent |-> <<request>>]
     ELSE IF rt.status # StatusOK
       THEN [value |-> ZeroQueryInfo, err |-> "api", QueryResponse |-> j, sent |-> <<request>>]
     ELSE IF ~rt.decodes
       THEN [value |-> ZeroQueryInfo, err |-> "decode", QueryResponse |-> j,
             sent |-> <<request>>]
     ELSE [value |-> rt.value, err |-> "nil", QueryResponse |-> rt.value.QueryResponse,
           sent |-> <<request>>]

\* (v1) Job.BatchInfo(info): fetchBatchInfo(j.Response.ID, info.ID), infoResponse
V1Job_BatchInfo(j, info, rt) ==
  LET request == [method |-> "GET",
                  url |-> ServiceURL \o bulkEndpoint \o "/" \o j.ID \o "/batch/" \o info.ID,
                  Accept |-> "application/json"]
  IN IF rt.err # "nil" THEN [value |-> ZeroBatchInfo, err |-> "transport", sent |-> <<request>>]
     ELSE IF rt.status # StatusOK
       THEN [value |-> ZeroBatchInfo, err |-> "api", sent |-> <<request>>]
     ELSE IF ~rt.decodes
       THEN [value |-> ZeroBatchInfo, err |-> "decode", sent |-> <<request>>]
     ELSE [value |-> rt.value, err |-> "nil", sent |-> <<request>>]

\* the counters the server reports
ServerCounters == {0, 1}

\* a call of op that returned value ret with error err on the round trip rt, the
\* snapshot of the job having been before
JobCall(op, err, rt, ret, before) ==
  [op |-> op, kind |-> Outcome(err), err |-> err, rt |-> rt, ret |-> ret, before |-> before]

\* (v2 ingest) Job.Close() and Job.Abort()
IngestSetState(op, state) ==
  /\ \E rt \in JsonRoundTrips(AnyJobV2(WriteResponse)) :
       LET c == Job_setState(WriteResponse, state, rt)
       IN /\ WriteResponse' = c.WriteResponse
          /\ sent' = c.sent
          /\ call' = JobCall(op, c.err, rt, c.value, WriteResponse)
  /\ UNCHANGED <<QueryResponse, Response, files, stream, pages, loop, resource>>

IngestClose ==
  WriteResponse # ZeroWriteResponse /\ IngestSetState("Job.Close", UpdateComplete)

IngestAbort ==
  WriteResponse # ZeroWriteResponse /\ IngestSetState("Job.Abort", Aborted)

\* QueryJob.Abort()
QueryAbort ==
  /\ QueryResponse # ZeroQueryResponse
  /\ \E rt \in JsonRoundTrips(ServerJobV2(QueryResponse)) :
       LET c == QueryJob_setState(QueryResponse, Aborted, rt)
       IN /\ QueryResponse' = c.QueryResponse
          /\ sent' = c.sent
          /\ call' = JobCall("QueryJob.Abort", c.err, rt, c.value, QueryResponse)
  /\ UNCHANGED <<WriteResponse, Response, files, stream, pages, loop, resource>>

\* (v1) Job.Close() and Job.Abort()
V1SetState(op, state) ==
  /\ \E rt \in JsonRoundTrips(ServerJobV1(Response)) :
       LET c == V1Job_setState(Response, state, rt)
       IN /\ Response' = c.Response
          /\ sent' = c.sent
          /\ call' = JobCall(op, c.err, rt, c.value, Response)
  /\ UNCHANGED <<WriteResponse, QueryResponse, files, stream, pages, loop, resource>>

V1Close == Response # ZeroJobInfo /\ V1SetState("bulkv1.Job.Close", Closed)
V1Abort == Response # ZeroJobInfo /\ V1SetState("bulkv1.Job.Abort", Aborted)

\* (v2 ingest) Job.Info()
IngestInfo ==
  /\ WriteResponse # ZeroWriteResponse
  /\ \E rt \in JsonRoundTrips({[WriteResponse |-> w, NumberRecordsProcessed |-> n] :
                                 w \in AnyJobV2(WriteResponse), n \in ServerCounters}) :
       LET i == Job_Info(WriteResponse, rt)
       IN /\ WriteResponse' = i.WriteResponse
          /\ sent' = i.sent
          /\ call' = JobCall("Job.Info", i.err, rt, i.value, WriteResponse)
  /\ UNCHANGED <<QueryResponse, Response, files, stream, pages, loop, resource>>

\* QueryJob.Info()
QueryInfo ==
  /\ QueryResponse # ZeroQueryResponse
  /\ \E rt \in JsonRoundTrips({[QueryResponse |-> q, NumberRecordsProcessed |-> n] :
                                 q \in ServerJobV2(QueryResponse), n \in ServerCounters}) :
       LET i == QueryJob_Info(QueryResponse, rt)
       IN /\ QueryResponse' = i.QueryResponse
          /\ sent' = i.sent
          /\ call' = JobCall("QueryJob.Info", i.err, rt, i.value, QueryResponse)
  /\ UNCHANGED <<WriteResponse, Response, files, stream, pages, loop, resource>>

\* (v1) Job.BatchInfo(info) for a batch of the job
V1BatchInfo ==
  /\ Response # ZeroJobInfo
  /\ \E info \in ServerBatches(Response.ID) :
       \E rt \in JsonRoundTrips({[info EXCEPT !.State = s] : s \in {"Queued", "Completed"}}) :
         LET b == V1Job_BatchInfo(Response, info, rt)
         IN /\ sent' = b.sent
            /\ call' = JobCall("bulkv1.Job.BatchInfo", b.err, rt, b.value, Response)
  /\ UNCHANGED <<WriteResponse, QueryResponse, Response, files, stream, pages, loop, resource>>


(***************************************************************************)
(* Statements about the operations.                                        *)
(***************************************************************************)
DeleteOps == {"Job.Delete", "QueryJob.Delete", "bulkv1.Job.Delete"}

\* C9: a Delete() (v2 ingest, v2 query, v1) returns nil exactly when the server
\* answered 204; a transport failure or any other status is an error; and the step
\* leaves the three stored snapshots as they were.
C9_DeleteNeeds204 ==
  [][call'.op \in DeleteOps =>
       /\ (call'.err = "nil") <=> (call'.rt.err = "nil" /\ call'.rt.status = 204)
       /\ call'.err # "nil" => call'.kind = "error"
       /\ WriteResponse' = WriteResponse
       /\ QueryResponse' = QueryResponse
       /\ Response' = Response]_vars

C9_Witness ==
  /\ call.op = "QueryJob.Delete"
  /\ call.rt.err = "nil" /\ call.rt.status = 200
  /\ call.err = ErrUnableToDelete
  /\ QueryResponse.ID \in ServerJobIDs

\* C10: Upload returns nil exactly when the response status is 201; createBatch
\* returns a decoded BatchInfo only with status 201; with any other status (200
\* included) both return the API error, and createBatch the zero BatchInfo.
C10_SubmitNeeds201 ==
  /\ call.op = "Job.Upload" =>
       /\ (call.err = "nil") <=> (call.rt.err = "nil" /\ call.rt.status = 201)
       /\ (call.rt.err = "nil" /\ call.rt.status # 201) => call.err = "api"
  /\ call.op = "bulkv1.Job.createBatch" =>
       /\ call.ret # ZeroBatchInfo =>
            /\ call.rt.err = "nil" /\ call.rt.status = 201
            /\ call.err = "nil" /\ call.ret = call.rt.value
       /\ (call.rt.err = "nil" /\ call.rt.status # 201) =>
            call.err = "api" /\ call.ret = ZeroBatchInfo

C10_Witness ==
  /\ call.op = "Job.Upload"
  /\ call.rt.err = "nil" /\ call.rt.status = 200
  /\ call.err = "api"

SetStateOps == {"Job.Close", "Job.Abort", "QueryJob.Abort"}
InfoOps == {"Job.Info", "QueryJob.Info"}

\* the snapshot of the job the last call was made on
SnapshotOf(op) ==
  IF op \in {"Job.Close", "Job.Abort", "Job.Info"} THEN WriteResponse ELSE QueryResponse

\* C11 (as stated): after a successful Close() or Abort() on an ingest Job or a
\* QueryJob, the state in the job's stored snapshot is the state the server returned
\* in the PATCH response.
C11_SnapshotHoldsReturnedState ==
  (call.op \in SetStateOps /\ call.err = "nil") =>
     SnapshotOf(call.op).State = call.rt.value.State

\* C11 (what the code does): a successful QueryJob.Abort() stores the returned
\* response; Job.Close() and Job.Abort() return it and leave the stored WriteResponse
\* as it was before the call.
C11_OnlyQueryJobStores ==
  /\ (call.op = "QueryJob.Abort" /\ call.err = "nil") => QueryResponse = call.rt.value
  /\ call.op \in {"Job.Close", "Job.Abort"} =>
       /\ WriteResponse = call.before
       /\ call.err = "nil" => call.ret = call.rt.value

C11_Witness ==
  /\ call.op = "Job.Close" /\ call.err = "nil"
  /\ call.ret.State = UpdateComplete
  /\ WriteResponse.State = Open

\* C12: every Info() on an ingest Job or a QueryJob sends exactly one request, the GET
\* of the job's info endpoint, and a successful one returns the value decoded from
\* that response, whatever the stored snapshot holds.
C12_InfoAlwaysFetches ==
  call.op \in InfoOps =>
    /\ Len(sent) = 1
    /\ sent[1] = InfoRequest(IF call.op = "Job.Info" THEN IngestEndpoint ELSE QueryEndpoint,
                             call.before.ID)
    /\ call.err = "nil" <=> (call.rt.err = "nil" /\ call.rt.status = 200 /\ call.rt.decodes)
    /\ call.err = "nil" => call.ret = call.rt.value

C12_Witness ==
  /\ call.op = "Job.Info" /\ call.err = "nil"
  /\ call.before.State = Open
  /\ call.ret.WriteResponse.State = JobComplete
  /\ call.ret.NumberRecordsProcessed = 1

\* C13 (as stated): after a successful Info() on an ingest Job or a QueryJob, the
\* job's stored snapshot equals the job-response part of what the server returned.
C13_InfoReplacesSnapshot ==
  (call.op \in InfoOps /\ call.err = "nil") =>
     SnapshotOf(call.op) = (IF call.op = "Job.Info" THEN call.rt.value.WriteResponse
                            ELSE call.rt.value.QueryResponse)

\* C13 (what the code does): QueryJob.Info() stores the QueryResponse part of a decoded
\* answer; Job.Info() never writes the stored WriteResponse.
C13_OnlyQueryInfoStores ==
  /\ (call.op = "QueryJob.Info" /\ call.err = "nil") =>
       QueryResponse = call.rt.value.QueryResponse
  /\ (call.op = "QueryJob.Info" /\ call.err # "nil") => QueryResponse = call.before
  /\ call.op = "Job.Info" => WriteResponse = call.before

C13_Witness ==
  /\ call.op = "Job.Info" /\ call.err = "nil"
  /\ call.rt.value.WriteResponse.State = Aborted
  /\ WriteResponse.State = Open

(***************************************************************************)
(* Query result pages.  A locator is a string of characters; the query     *)
(* string of a request is the text url.Values.Encode writes and the server *)
(* parses.  Parameter names and digits are single tokens of that text.     *)
(***************************************************************************)
\* the characters url.QueryEscape writes as %XX, and their two hex digits
Reserved == {"+", "&", "=", "%", "/", "?", "'", ","}

HexOf(c) ==
  CASE c = "+" -> <<"2", "B">>
    [] c = "&" -> <<"2", "6">>
    [] c = "=" -> <<"3", "D">>
    [] c = "%" -> <<"2", "5">>
    [] c = "/" -> <<"2", "F">>
    [] c = "?" -> <<"3", "F">>
    [] c = "'" -> <<"2", "7">>
    [] c = "," -> <<"2", "C">>

\* url.QueryEscape: a space is written '+', a reserved character %XX
RECURSIVE QueryEscape(_)
QueryEscape(s) ==
  IF s = <<>> THEN <<>>
  ELSE LET c == Head(s)
       IN (IF c = " " THEN <<"+">>
           ELSE IF c \in Reserved THEN <<"%">> \o HexOf(c)
           ELSE <<c>>) \o QueryEscape(Tail(s))

\* url.QueryUnescape: whether every '%' of s starts an escape
RECURSIVE ValidEscapes(_)
ValidEscapes(s) ==
  IF s = <<>> THEN TRUE
  ELSE IF Head(s) = "%"
    THEN /\ Len(s) >= 3
         /\ \E c \in Reserved : HexOf(c) = <<s[2], s[3]>>
         /\ ValidEscapes(SubSeq(s, 4, Len(s)))
  ELSE ValidEscapes(Tail(s))

\* url.QueryUnescape of a text with valid escapes
RECURSIVE QueryUnescape(_)
QueryUnescape(s) ==
  IF s = <<>> THEN <<>>
  ELSE IF Head(s) = "+" THEN <<" ">> \o QueryUnescape(Tail(s))
  ELSE IF Head(s) = "%"
    THEN <<CHOOSE c \in Reserved : HexOf(c) = <<s[2], s[3]>> >>
           \o QueryUnescape(SubSeq(s, 4, Len(s)))
  ELSE <<Head(s)>> \o QueryUnescape(Tail(s))

DigitText == <<"0", "1", "2", "3", "4", "5", "6", "7", "8", "9">>

\* strconv.Itoa of a positive number
RECURSIVE Itoa(_)
Itoa(n) ==
  IF n < 10 THEN <<DigitText[n + 1]>>
  ELSE Itoa(n \div 10) \o <<DigitText[(n % 10) + 1]>>

\* url.Values.Encode of the parameters q (a sequence of name and value, sorted by
\* name as Encode sorts them)
RECURSIVE Encode(_)
Encode(q) ==
  IF q = <<>> THEN <<>>
  ELSE <<q[1].key, "=">> \o QueryEscape(q[1].value)
         \o (IF Len(q) > 1 THEN <<"&">> ELSE <<>>) \o Encode(Tail(q))

\* the position of the first sep in s, or 0
FirstIndex(s, sep) ==
  IF \E i \in 1..Len(s) : s[i] = sep
    THEN CHOOSE i \in 1..Len(s) : s[i] = sep /\ \A k \in 1..(i - 1) : s[k] # sep
    ELSE 0

\* url.ParseQuery (the server's side): the pairs of the text, in order; a pair with
\* an invalid escape is dropped
RECURSIVE ParseQuery(_)
ParseQuery(raw) ==
  IF raw = <<>> THEN <<>>
  ELSE LET amp == FirstIndex(raw, "&")
           part == IF amp = 0 THEN raw ELSE SubSeq(raw, 1, amp - 1)
           rest == IF amp = 0 THEN <<>> ELSE SubSeq(raw, amp + 1, Len(raw))
           eq == FirstIndex(part, "=")
           key == IF eq = 0 THEN part ELSE SubSeq(part, 1, eq - 1)
           value == IF eq = 0 THEN <<>> ELSE SubSeq(part, eq + 1, Len(part))
       IN (IF part = <<>> \/ ~ValidEscapes(value) THEN <<>>
           ELSE <<[key |-> key, value |-> QueryUnescape(value)]>>) \o ParseQuery(rest)

\* url.Values.Get: the first value of the name, "" when there is none
QueryGet(q, name) ==
  IF \E i \in 1..Len(q) : q[i].key = <<name>>
    THEN q[CHOOSE i \in 1..Len(q) :
             q[i].key = <<name>> /\ \A k \in 1..(i - 1) : q[k].key # <<name>>].value
    ELSE <<>>

\* http.Header.Get: "" when the header is absent
HeaderGet(header, name) == IF name \in DOMAIN header THEN header[name] ELSE <<>>

SforceLocator == "Sforce-Locator"
NoHeader == [h \in {} |-> <<>>]

(***************************************************************************)
(* QueryJob.ExportResults and the caller that pages with it.               *)
(***************************************************************************)
\* the request of ExportResults without the locator parameter
QueryJob_resultsRequest_NoLocator(j, maxRecords, locator) ==
  LET q == IF maxRecords > 0 THEN <<[key |-> "maxRecords", value |-> Itoa(maxRecords)]>>
           ELSE <<>>
  IN [method |-> "GET",
      url |-> ServiceURL \o QueryEndpoint \o "/" \o j.ID \o "/results",
      RawQuery |-> Encode(q), Accept |-> "text/csv", ContentType |-> "application/json"]

\* the request QueryJob.ExportResults builds
QueryJob_resultsRequest(j, maxRecords, locator) ==
  LET q == (IF locator # <<>> THEN <<[key |-> "locator", value |-> locator]>> ELSE <<>>)
           \o (IF maxRecords > 0
                 THEN <<[key |-> "maxRecords", value |-> Itoa(maxRecords)]>>
                 ELSE <<>>)
  IN [method |-> "GET",
      url |-> ServiceURL \o QueryEndpoint \o "/" \o j.ID \o "/results",
      RawQuery |-> Encode(q), Accept |-> "text/csv", ContentType |-> "application/json"]

\* what os.Create and io.Copy do
FileOutcomes == {"written", "create fails", "copy fails"}

\* QueryJob.ExportResults(filepath, maxRecords, locator) with the server's answer rt
\* and the file system's outcome fs: the returned locator, the error, the files
QueryJob_ExportResults(j, filepath, maxRecords, locator, rt, fs, fileSystem) ==
  LET request == QueryJob_resultsRequest(j, maxRecords, locator)
  IN IF rt.err # "nil"
       THEN [ret |-> <<>>, err |-> "transport", sent |-> <<request>>, files |-> fileSystem]
     ELSE IF rt.status # StatusOK
       THEN [ret |-> <<>>, err |-> "api", sent |-> <<request>>, files |-> fileSystem]
     ELSE IF fs = "create fails"
       THEN [ret |-> <<>>, err |-> "create", sent |-> <<request>>, files |-> fileSystem]
     ELSE IF fs = "copy fails"
       THEN [ret |-> <<>>, err |-> "copy", sent |-> <<request>>,
             files |-> [fileSystem EXCEPT
                          ![filepath] = [exists |-> TRUE, content |-> rt.body,
                                         complete |-> FALSE]]]
     ELSE [ret |-> HeaderGet(rt.header, SforceLocator), err |-> "nil", sent |-> <<request>>,
           files |-> [fileSystem EXCEPT
                        ![filepath] = [exists |-> TRUE, content |-> rt.body,
                                       complete |-> TRUE]]]

\* the locators the server hands out
Locators ==
  {<<"M", "T", "A">>, <<"a", "+", "b">>, <<"x", "=", "&">>, <<"%", " ", "/">>}

\* the pages the server may hold: the first is addressed by no locator, each other
\* one by a locator of its own
PageLists ==
  UNION {{[k \in 1..n |-> [locator |-> IF k = 1 THEN <<>> ELSE l[k - 1], body |-> k]] :
            l \in Arrangements(Locators, n - 1)} : n \in 1..MaxPages}

\* the page list[k] the query string asks for, 0 when the locator is unknown
PageOf(list, rawQuery) ==
  LET asked == QueryGet(ParseQuery(rawQuery), "locator")
  IN IF \E k \in 1..Len(list) : list[k].locator = asked
       THEN CHOOSE k \in 1..Len(list) : list[k].locator = asked
       ELSE 0

\* the server's answers to a results request: a failure, or the page asked for with
\* the next page's locator in the Sforce-Locator header (absent or empty on the last)
ResultsRoundTrips(list, request) ==
  LET k == PageOf(list, request.RawQuery)
  IN {[err |-> "transport"], [err |-> "nil", status |-> 500, page |-> 0]} \cup
     (IF k = 0 THEN {[err |-> "nil", status |-> 400, page |-> 0]}
      ELSE IF k < Len(list)
        THEN {[err |-> "nil", status |-> StatusOK, page |-> k, body |-> list[k].body,
               header |-> [h \in {SforceLocator} |-> list[k + 1].locator]]}
      ELSE {[err |-> "nil", status |-> StatusOK, page |-> k, body |-> list[k].body,
             header |-> h] : h \in {NoHeader, [n \in {SforceLocator} |-> <<>>]}})

FilePaths == {"results.csv"}
MaxRecordsArgs == {0, 2, 10}

\* the caller starts paging: the first call will carry the empty locator
StartPaging ==
  /\ loop.pc = "idle"
  /\ \E maxRecords \in MaxRecordsArgs, filepath \in FilePaths :
       loop' = [pc |-> "paging", locator |-> <<>>, maxRecords |-> maxRecords,
                filepath |-> filepath, visited |-> <<>>]
  /\ UNCHANGED <<WriteResponse, QueryResponse, Response, sent, call, files, stream, pages,
                 resource>>

\* one QueryJob.ExportResults call of the loop, with the locator the call before
\* returned; the loop ends on an error or an empty locator
ExportResults ==
  /\ loop.pc = "paging"
  /\ LET request == QueryJob_resultsRequest(QueryResponse, loop.maxRecords, loop.locator)
     IN \E rt \in ResultsRoundTrips(pages, request), fs \in FileOutcomes :
          LET e == QueryJob_ExportResults(QueryResponse, loop.filepath, loop.maxRecords,
                                          loop.locator, rt, fs, files)
              served == IF rt.err = "nil" /\ rt.status = StatusOK
                          THEN Append(loop.visited, rt.page) ELSE loop.visited
          IN /\ files' = e.files
             /\ sent' = e.sent
             /\ call' = [op |-> "QueryJob.ExportResults", kind |-> Outcome(e.err),
                         err |-> e.err, rt |-> rt, ret |-> e.ret, locator |-> loop.locator]
             /\ loop' = [loop EXCEPT
                           !.pc = IF e.err # "nil" THEN "failed"
                                  ELSE IF e.ret = <<>> THEN "done" ELSE "paging",
                           !.locator = e.ret,
                           !.visited = served]
  /\ UNCHANGED <<WriteResponse, QueryResponse, Response, stream, pages, resource>>

InitPaging ==
  /\ WriteResponse = ZeroWriteResponse
  /\ QueryResponse = [ID |-> "750A", ColumnDelimiter |-> Comma, State |-> JobComplete]
  /\ Response = ZeroJobInfo
  /\ sent = <<>>
  /\ call = NoCall
  /\ files = [p \in FilePaths |-> NoFile]
  /\ stream = <<>>
  /\ pages \in PageLists
  /\ loop = [pc |-> "idle"]
  /\ resource = NilResource

NextPaging ==
  \/ StartPaging
  \/ ExportResults

SpecPaging == InitPaging /\ [][NextPaging]_vars

\* C8: a successful ExportResults returns the Sforce-Locator header value of the
\* answer ("" when absent); the server reads, in the locator parameter, the locator
\* argument as given, and no locator parameter when the argument is empty; so the
\* pages the loop has been served are pages 1, 2, ... in order, it goes on exactly
\* while the returned locator is not empty, and when it is done it has been served
\* every page once.
C8_Pagination ==
  /\ call.op = "QueryJob.ExportResults" =>
       LET q == ParseQuery(sent[1].RawQuery)
       IN /\ call.err = "nil" => call.ret = HeaderGet(call.rt.header, SforceLocator)
          /\ QueryGet(q, "locator") = call.locator
          /\ call.locator = <<>> => \A i \in 1..Len(q) : q[i].key # <<"locator">>
          /\ call.err = "nil" => (loop.pc = "done" <=> call.ret = <<>>)
          /\ call.err # "nil" => loop.pc = "failed"
  /\ loop.pc # "idle" =>
       /\ \A i \in 1..Len(loop.visited) : loop.visited[i] = i
       /\ Len(loop.visited) <= Len(pages)
       /\ loop.pc = "done" => Len(loop.visited) = Len(pages)

C8_Witness ==
  /\ loop.pc = "done"
  /\ Len(pages) = 3
  /\ loop.visited = <<1, 2, 3>>
  /\ call.locator \in {<<"a", "+", "b">>, <<"x", "=", "&">>, <<"%", " ", "/">>}
  /\ call.ret = <<>>

(***************************************************************************)
(* Result fetches and exports.                                             *)
(***************************************************************************)
\* the result streams the server holds for an ingest job with the declared
\* delimiter, for a v1 batch and for a query job
ServerSuccessfulResults(columnDelimiter) ==
  WriteStream(<<sfID, sfCreated, "Name">>, <<<<"001", "true", "Acme">>>>,
              ServerDelimiter(columnDelimiter))

ServerFailedResults(columnDelimiter) ==
  WriteStream(<<sfID, sfError, "Name">>, <<<<"001", "REQUIRED_FIELD_MISSING", "Acme">>>>,
              ServerDelimiter(columnDelimiter))

ServerUnprocessedRecords == WriteStream(<<"Name">>, <<<<"Acme">>>>, RuneComma)

ServerBatchResults ==
  WriteStream(<<"Id", "Success", "Created", "Error">>, <<<<"001", "true", "true", "">>>>,
              RuneComma)

ServerQueryResults == WriteStream(<<"Id">>, <<<<"001">>>>, RuneComma)

\* a GET that accepts text/csv
ResultsRequest(url) == [method |-> "GET", url |-> url, Accept |-> "text/csv"]

\* a fetch that asks again when the first answer is a failure
Job_getSuccessfulResults_AsksTwice(j, rt) ==
  LET request == ResultsRequest(ServiceURL \o IngestEndpoint \o "/" \o j.ID
                                \o "/successfulResults/")
  IN IF rt.err # "nil" THEN [err |-> "transport", sent |-> <<request, request>>]
     ELSE IF rt.status # StatusOK THEN [err |-> "api", sent |-> <<request, request>>]
     ELSE [err |-> "nil", body |-> rt.body, sent |-> <<request>>]

\* Job.getSuccessfulResults() and Job.getFailedResults() on job j
Job_getSuccessfulResults(j, rt) ==
  LET request == ResultsRequest(ServiceURL \o IngestEndpoint \o "/" \o j.ID
                                \o "/successfulResults/")
  IN IF rt.err # "nil" THEN [err |-> "transport", sent |-> <<request>>]
     ELSE IF rt.status # StatusOK THEN [err |-> "api", sent |-> <<request>>]
     ELSE [err |-> "nil", body |-> rt.body, sent |-> <<request>>]

Job_getFailedResults(j, rt) ==
  LET request == ResultsRequest(ServiceURL \o IngestEndpoint \o "/" \o j.ID
                                \o "/failedResults/")
  IN IF rt.err # "nil" THEN [err |-> "transport", sent |-> <<request>>]
     ELSE IF rt.status # StatusOK THEN [err |-> "api", sent |-> <<request>>]
     ELSE [err |-> "nil", body |-> rt.body, sent |-> <<request>>]

\* (v1) Job.getResults(batchInfo) on job j
V1Job_getResults(j, batchInfo, rt) ==
  LET request == ResultsRequest(ServiceURL \o bulkEndpoint \o "/" \o j.ID \o "/batch/"
                                \o batchInfo.ID \o "/result")
  IN IF rt.err # "nil" THEN [err |-> "transport", sent |-> <<request>>]
     ELSE IF rt.status # StatusOK THEN [err |-> "api", sent |-> <<request>>]
     ELSE [err |-> "nil", body |-> rt.body, sent |-> <<request>>]

\* a file opened for appending instead of being created anew
CreateAndCopy_Appends(filename, body, fs, fileSystem) ==
  IF fs = "create fails" THEN [err |-> "create", files |-> fileSystem]
  ELSE LET old == IF fileSystem[filename].exists THEN fileSystem[filename].content ELSE <<>>
       IN [err |-> IF fs = "copy fails" THEN "copy" ELSE "nil",
           files |-> [fileSystem EXCEPT
                        ![filename] = [exists |-> TRUE, content |-> old \o body,
                                       complete |-> fs # "copy fails"]]]

\* os.Create(filename), io.Copy(out, response.Body), return err: the file is
\* truncated as soon as it is created, and holds the body once the copy is complete
CreateAndCopy(filename, body, fs, fileSystem) ==
  IF fs = "create fails" THEN [err |-> "create", files |-> fileSystem]
  ELSE [err |-> IF fs = "copy fails" THEN "copy" ELSE "nil",
        files |-> [fileSystem EXCEPT
                     ![filename] = [exists |-> TRUE, content |-> body,
                                    complete |-> fs # "copy fails"]]]

\* Job.ExportSuccessfulResults(filename) and Job.ExportFailedResults(filename)
Job_ExportSuccessfulResults(j, filename, rt, fs, fileSystem) ==
  LET response == Job_getSuccessfulResults(j, rt)
  IN IF response.err # "nil"
       THEN [err |-> response.err, sent |-> response.sent, files |-> fileSystem]
     ELSE LET out == CreateAndCopy(filename, response.body, fs, fileSystem)
          IN [err |-> out.err, sent |-> response.sent, files |-> out.files]

\* an export that creates the file before it asks the server
Job_ExportFailedResults_CreatesFirst(j, filename, rt, fs, fileSystem) ==
  LET response == Job_getFailedResults(j, rt)
      created == [fileSystem EXCEPT
                    ![filename] = [exists |-> TRUE, content |-> <<>>, complete |-> FALSE]]
  IN IF fs = "create fails"
       THEN [err |-> "create", sent |-> <<>>, files |-> fileSystem]
     ELSE IF response.err # "nil"
       THEN [err |-> response.err, sent |-> response.sent, files |-> created]
     ELSE LET out == CreateAndCopy(filename, response.body, fs, fileSystem)
          IN [err |-> out.err, sent |-> response.sent, files |-> out.files]

Job_ExportFailedResults(j, filename, rt, fs, fileSystem) ==
  LET response == Job_getFailedResults(j, rt)
  IN IF response.err # "nil"
       THEN [err |-> response.err, sent |-> response.sent, files |-> fileSystem]
     ELSE LET out == CreateAndCopy(filename, response.body, fs, fileSystem)
          IN [err |-> out.err, sent |-> response.sent, files |-> out.files]

\* (v1) Job.ExportResults(filename, batchInfo)
V1Job_ExportResults(j, filename, batchInfo, rt, fs, fileSystem) ==
  LET response == V1Job_getResults(j, batchInfo, rt)
  IN IF response.err # "nil"
       THEN [err |-> response.err, sent |-> response.sent, files |-> fileSystem]
     ELSE LET out == CreateAndCopy(filename, response.body, fs, fileSystem)
          IN [err |-> out.err, sent |-> response.sent, files |-> out.files]

\* Job.SuccessfulRecords() and Job.FailedRecords()
Job_SuccessfulRecords(j, rt) ==
  LET response == Job_getSuccessfulResults(j, rt)
  IN IF response.err # "nil" THEN [result |-> ParseErr(response.err), sent |-> response.sent]
     ELSE [result |-> ParseSuccessfulResults(response.body, Job_delimiter(j.ColumnDelimiter)),
           sent |-> response.sent]

Job_FailedRecords(j, rt) ==
  LET response == Job_getFailedResults(j, rt)
  IN IF response.err # "nil" THEN [result |-> ParseErr(response.err), sent |-> response.sent]
     ELSE [result |-> ParseFailedResults(response.body, Job_delimiter(j.ColumnDelimiter)),
           sent |-> response.sent]

\* a call of an export op on filename, the file having been before
ExportCall(op, err, rt, filename, before) ==
  [op |-> op, kind |-> Outcome(err), err |-> err, rt |-> rt, filename |-> filename,
   before |-> before]

\* the server's answers to a query job's results request: a failure or the results,
\* with or without a locator in the Sforce-Locator header
QueryResultsRoundTrips ==
  {[err |-> "transport"]} \cup
  {[err |-> "nil", status |-> s, page |-> 1, body |-> ServerQueryResults, header |-> h] :
     s \in Statuses, h \in {NoHeader, [n \in {SforceLocator} |-> <<"M", "T", "A">>]}}

ExportSuccessfulResults ==
  /\ WriteResponse # ZeroWriteResponse
  /\ \E filename \in FilePaths, fs \in FileOutcomes,
        rt \in CsvRoundTrips(ServerSuccessfulResults(WriteResponse.ColumnDelimiter)) :
       LET e == Job_ExportSuccessfulResults(WriteResponse, filename, rt, fs, files)
       IN /\ files' = e.files
          /\ sent' = e.sent
          /\ call' = ExportCall("Job.ExportSuccessfulResults", e.err, rt, filename,
                                files[filename])
  /\ UNCHANGED <<WriteResponse, QueryResponse, Response, stream, pages, loop, resource>>

ExportFailedResults ==
  /\ WriteResponse # ZeroWriteResponse
  /\ \E filename \in FilePaths, fs \in FileOutcomes,
        rt \in CsvRoundTrips(ServerFailedResults(WriteResponse.ColumnDelimiter)) :
       LET e == Job_ExportFailedResults(WriteResponse, filename, rt, fs, files)
       IN /\ files' = e.files
          /\ sent' = e.sent
          /\ call' = ExportCall("Job.ExportFailedResults", e.err, rt, filename,
                                files[filename])
  /\ UNCHANGED <<WriteResponse, QueryResponse, Response, stream, pages, loop, resource>>

V1ExportResults ==
  /\ Response # ZeroJobInfo
  /\ \E filename \in FilePaths, fs \in FileOutcomes, batchInfo \in ServerBatches(Response.ID),
        rt \in CsvRoundTrips(ServerBatchResults) :
       LET e == V1Job_ExportResults(Response, filename, batchInfo, rt, fs, files)
       IN /\ files' = e.files
          /\ sent' = e.sent
          /\ call' = ExportCall("bulkv1.Job.ExportResults", e.err, rt, filename,
                                files[filename])
  /\ UNCHANGED <<WriteResponse, QueryResponse, Response, stream, pages, loop, resource>>

\* one QueryJob.ExportResults(filepath, maxRecords, locator) call
QueryExportResults ==
  /\ QueryResponse # ZeroQueryResponse
  /\ \E filepath \in FilePaths, fs \in FileOutcomes, maxRecords \in {0, 2},
        locator \in {<<>>, <<"M", "T", "A">>}, rt \in QueryResultsRoundTrips :
       LET e == QueryJob_ExportResults(QueryResponse, filepath, maxRecords, locator, rt, fs,
                                       files)
       IN /\ files' = e.files
          /\ sent' = e.sent
          /\ call' = [op |-> "QueryJob.ExportResults", kind |-> Outcome(e.err),
                      err |-> e.err, rt |-> rt, filename |-> filepath,
                      before |-> files[filepath], ret |-> e.ret]
  /\ UNCHANGED <<WriteResponse, QueryResponse, Response, stream, pages, loop, resource>>

SuccessfulRecords ==
  /\ WriteResponse # ZeroWriteResponse
  /\ \E rt \in CsvRoundTrips(ServerSuccessfulResults(WriteResponse.ColumnDelimiter)) :
       LET r == Job_SuccessfulRecords(WriteResponse, rt)
       IN /\ sent' = r.sent
          /\ call' = [op |-> "Job.SuccessfulRecords", kind |-> r.result.kind,
                      err |-> r.result.err, records |-> r.result.records, rt |-> rt]
  /\ UNCHANGED <<WriteResponse, QueryResponse, Response, files, stream, pages, loop, resource>>

FailedRecords ==
  /\ WriteResponse # ZeroWriteResponse
  /\ \E rt \in CsvRoundTrips(ServerFailedResults(WriteResponse.ColumnDelimiter)) :
       LET r == Job_FailedRecords(WriteResponse, rt)
       IN /\ sent' = r.sent
          /\ call' = [op |-> "Job.FailedRecords", kind |-> r.result.kind,
                      err |-> r.result.err, records |-> r.result.records, rt |-> rt]
  /\ UNCHANGED <<WriteResponse, QueryResponse, Response, files, stream, pages, loop, resource>>

\* Job.UnprocessedRecords() on a created job
FetchUnprocessedRecords == WriteResponse # ZeroWriteResponse /\ UnprocessedRecords

\* no job yet; the file the exports write may not exist; the server holds the
\* unprocessed records
InitJobs ==
  /\ WriteResponse = ZeroWriteResponse
  /\ QueryResponse = ZeroQueryResponse
  /\ Response = ZeroJobInfo
  /\ sent = <<>>
  /\ call = NoCall
  /\ files = [p \in FilePaths |-> NoFile]
  /\ stream = ServerUnprocessedRecords
  /\ pages = <<>>
  /\ loop = [pc |-> "idle"]
  /\ resource = NilResource

NextJobs ==
  \/ CreateIngest
  \/ CreateQuery
  \/ CreateV1
  \/ Upload
  \/ CreateBatch
  \/ IngestClose
  \/ IngestAbort
  \/ QueryAbort
  \/ V1Close
  \/ V1Abort
  \/ IngestInfo
  \/ QueryInfo
  \/ V1BatchInfo
  \/ IngestDelete
  \/ QueryDelete
  \/ V1Delete
  \/ ExportSuccessfulResults
  \/ ExportFailedResults
  \/ V1ExportResults
  \/ QueryExportResults
  \/ SuccessfulRecords
  \/ FailedRecords
  \/ FetchUnprocessedRecords

SpecJobs == InitJobs /\ [][NextJobs]_vars

CreateOps == {"Job.create", "QueryJob.create", "bulkv1.Job.create"}
ExportOps ==
  {"Job.ExportSuccessfulResults", "Job.ExportFailedResults", "bulkv1.Job.ExportResults",
   "QueryJob.ExportResults"}

\* the operations whose call records the round trip they made
RoundTripOps ==
  DeleteOps \cup SetStateOps \cup InfoOps \cup ExportOps \cup
  {"Job.Upload", "bulkv1.Job.createBatch", "bulkv1.Job.Close", "bulkv1.Job.Abort",
   "bulkv1.Job.BatchInfo", "Job.SuccessfulRecords", "Job.FailedRecords"}

\* the status each operation expects of the server
ExpectedStatus(op) ==
  IF op \in DeleteOps THEN StatusNoContent
  ELSE IF op \in {"Job.Upload", "bulkv1.Job.createBatch"} THEN StatusCreated
  ELSE StatusOK

\* C18: no job operation (create, Upload, createBatch, Close, Abort, Info,
\* BatchInfo, Delete, a result fetch or an export) sends more than one HTTP request
\* in one invocation; when the round trip fails in transport or answers with a
\* status the operation does not expect, the operation returns an error having
\* sent that one request only.
C18_NoRetries ==
  /\ Len(sent) <= 1
  /\ call.op \in RoundTripOps /\ (call.rt.err # "nil" \/ call.rt.status # ExpectedStatus(call.op))
       => call.err # "nil" /\ Len(sent) = 1
  /\ call.op \in CreateOps \cup {"UnprocessedRecords"} /\ call.err \in {"transport", "api"}
       => Len(sent) = 1

\* a result fetch met a transport failure: one request sent, the error returned
C18_Witness ==
  /\ call.op = "Job.SuccessfulRecords"
  /\ call.rt.err = "transport"
  /\ call.err = "transport"
  /\ Len(sent) = 1

\* C20: when an export (ExportSuccessfulResults, ExportFailedResults, the v1
\* ExportResults, QueryJob.ExportResults) returns nil, the server answered 200 and
\* the named file holds exactly the response body, whatever it held before.
C20_ExportIsPassthrough ==
  call.op \in ExportOps /\ call.err = "nil"
    => /\ call.rt.err = "nil"
       /\ call.rt.status = StatusOK
       /\ files[call.filename] = [exists |-> TRUE, content |-> call.rt.body, complete |-> TRUE]

\* an export succeeded onto a file that held another body before
C20_Witness ==
  /\ call.op = "Job.ExportFailedResults"
  /\ call.err = "nil"
  /\ call.before.exists
  /\ call.before.content # call.rt.body
  /\ files[call.filename].content = call.rt.body

\* C23: when the server answers an export's request with a status other than 200,
\* the export (ExportSuccessfulResults, ExportFailedResults, the v1 ExportResults,
\* QueryJob.ExportResults) returns the API error and the destination file is as it
\* was before the call, neither created nor truncated; QueryJob.ExportResults
\* returns the empty locator.
C23_RefusedExportLeavesFile ==
  (call.op \in ExportOps /\ call.rt.err = "nil" /\ call.rt.status # StatusOK) =>
    /\ call.err = "api"
    /\ files[call.filename] = call.before
    /\ call.op = "QueryJob.ExportResults" => call.ret = <<>>

\* a refused export onto a file an earlier export had written
C23_Witness ==
  /\ call.op = "Job.ExportFailedResults"
  /\ call.rt.err = "nil"
  /\ call.rt.status = 400
  /\ call.err = "api"
  /\ call.before.exists
  /\ call.before.complete
  /\ files[call.filename] = call.before

QueryJobOps == {"QueryJob.Info", "QueryJob.Abort", "QueryJob.Delete", "QueryJob.ExportResults"}

\* C24: an Info, Abort, Delete or ExportResults of a QueryJob that returns an error
\* (transport failure, unexpected status, undecodable body) leaves the job's
\* QueryResponse as it was before the call; such a call changes QueryResponse only
\* when the response arrived with status 200 and its body decoded.
C24_FailedQueryCallKeepsSnapshot ==
  [][call'.op \in QueryJobOps =>
       /\ call'.err # "nil" => QueryResponse' = QueryResponse
       /\ QueryResponse' # QueryResponse =>
            /\ call'.rt.err = "nil"
            /\ call'.rt.status = StatusOK
            /\ call'.rt.decodes]_vars

\* an Abort whose answer did not decode, on a job whose snapshot differs from what
\* the server sent
C24_Witness ==
  /\ call.op = "QueryJob.Abort"
  /\ call.err = "decode"
  /\ call.rt.value # call.before
  /\ QueryResponse = call.before
  /\ QueryResponse # ZeroQueryResponse

\* the operations of a created v2 ingest job
IngestJobOps ==
  {"Job.Upload", "Job.Info", "Job.Close", "Job.Abort", "Job.Delete", "Job.SuccessfulRecords",
   "Job.FailedRecords", "UnprocessedRecords", "Job.ExportSuccessfulResults",
   "Job.ExportFailedResults"}

\* the URLs that address the job id
IngestTargets(id) ==
  LET job == ServiceURL \o IngestEndpoint \o "/" \o id
  IN {job, job \o "/batches", job \o "/successfulResults/", job \o "/failedResults/",
      job \o "/unprocessedrecords/"}

\* C25: on a v2 ingest job that create has filled, every later operation (Upload,
\* Info, Close, Abort, Delete, the result fetches and exports) sends its request to
\* the job ID the job holds since create, whatever the earlier answers contained:
\* only create changes the job's WriteResponse.
C25_RequestsTargetCreatedJob ==
  [][/\ WriteResponse' # WriteResponse => call'.op = "Job.create" /\ call'.err = "nil"
     /\ call'.op \in IngestJobOps =>
          /\ WriteResponse' = WriteResponse
          /\ Len(sent') = 1
          /\ sent'[1].url \in IngestTargets(WriteResponse.ID)]_vars

\* an Info answered with another job's ID: the job keeps the ID create gave it
C25_Witness ==
  /\ call.op = "Job.Info"
  /\ call.err = "nil"
  /\ call.ret.WriteResponse.ID # WriteResponse.ID
  /\ call.before = WriteResponse
  /\ sent[1].url = ServiceURL \o IngestEndpoint \o "/" \o WriteResponse.ID

(***************************************************************************)
(* Credentials: validation before construction.                            *)
(***************************************************************************)
ErrCredURL == "credentials: password credential's URL can not be empty"
ErrCredUsername == "credentials: password credential's username can not be empty"
ErrCredPassword == "credentials: password credential's password can not be empty"
ErrCredClientID == "credentials: password credential's client ID can not be empty"
ErrCredClientSecret == "credentials: password credential's client secret can not be empty"
ErrCredRefreshToken ==
  "credentials: refresh token credential's refreshToken can not be empty"

\* a nil *Credentials
NilCredentials == [nil |-> TRUE]

validatePasswordCredentials(cred) ==
  IF cred.URL = "" THEN ErrCredURL
  ELSE IF cred.Username = "" THEN ErrCredUsername
  ELSE IF cred.Password = "" THEN ErrCredPassword
  ELSE IF cred.ClientID = "" THEN ErrCredClientID
  ELSE IF cred.ClientSecret = "" THEN ErrCredClientSecret
  ELSE "nil"

NewPasswordCredentials(creds) ==
  LET err == validatePasswordCredentials(creds)
  IN IF err # "nil" THEN [ret |-> NilCredentials, err |-> err]
     ELSE [ret |-> [nil |-> FALSE, provider |-> [type |-> "passwordProvider", creds |-> creds]],
           err |-> "nil"]

\* validateRefreshTokenCredentials without the check of the refresh token
validateRefreshTokenCredentials_NoTokenCheck(cred) ==
  IF cred.URL = "" THEN ErrCredURL
  ELSE IF cred.ClientID = "" THEN ErrCredClientID
  ELSE IF cred.ClientSecret = "" THEN ErrCredClientSecret
  ELSE "nil"

validateRefreshTokenCredentials(cred) ==
  IF cred.URL = "" THEN ErrCredURL
  ELSE IF cred.RefreshToken = "" THEN ErrCredRefreshToken
  ELSE IF cred.ClientID = "" THEN ErrCredClientID
  ELSE IF cred.ClientSecret = "" THEN ErrCredClientSecret
  ELSE "nil"

NewRefreshTokenCredentials(creds) ==
  LET err == validateRefreshTokenCredentials(creds)
  IN IF err # "nil" THEN [ret |-> NilCredentials, err |-> err]
     ELSE [ret |-> [nil |-> FALSE,
                    provider |-> [type |-> "refreshTokenProvider", creds |-> creds]],
           err |-> "nil"]

\* the credentials callers pass
LoginURLs == {"", "https://login.salesforce.com", "https://test.salesforce.com"}
ClientIDs == {"", "3MVG9", "3MVGA"}

PasswordCredentialsArgs ==
  [URL : LoginURLs, Username : {"", "user@example.com"}, Password : {"", "hunter2"},
   ClientID : ClientIDs, ClientSecret : {"", "shh"}]

RefreshTokenCredentialsArgs ==
  [URL : LoginURLs, RefreshToken : {"", "5Aep86"}, ClientID : ClientIDs,
   ClientSecret : {"", "shh"}]

DoNewPasswordCredentials ==
  /\ \E creds \in PasswordCredentialsArgs :
       LET n == NewPasswordCredentials(creds)
       IN call' = [op |-> "NewPasswordCredentials", kind |-> Outcome(n.err), err |-> n.err,
                   creds |-> creds, ret |-> n.ret]
  /\ UNCHANGED <<WriteResponse, QueryResponse, Response, sent, files, stream, pages, loop, resource>>

DoNewRefreshTokenCredentials ==
  /\ \E creds \in RefreshTokenCredentialsArgs :
       LET n == NewRefreshTokenCredentials(creds)
       IN call' = [op |-> "NewRefreshTokenCredentials", kind |-> Outcome(n.err),
                   err |-> n.err, creds |-> creds, ret |-> n.ret]
  /\ UNCHANGED <<WriteResponse, QueryResponse, Response, sent, files, stream, pages, loop, resource>>

InitCredentials == InitCreate

NextCredentials ==
  \/ DoNewPasswordCredentials
  \/ DoNewRefreshTokenCredentials

SpecCredentials == InitCredentials /\ [][NextCredentials]_vars

\* the required fields of each kind of credentials, in the order of the checks
RequiredFields(op) ==
  IF op = "NewPasswordCredentials"
    THEN <<"URL", "Username", "Password", "ClientID", "ClientSecret">>
    ELSE <<"URL", "RefreshToken", "ClientID", "ClientSecret">>

\* the field an error message names
NamedField(err) ==
  CASE err = ErrCredURL -> "URL"
    [] err = ErrCredUsername -> "Username"
    [] err = ErrCredPassword -> "Password"
    [] err = ErrCredRefreshToken -> "RefreshToken"
    [] err = ErrCredClientID -> "ClientID"
    [] err = ErrCredClientSecret -> "ClientSecret"
    [] OTHER -> "none"

\* C14: both constructors return credentials (holding the given values) exactly when
\* every required field is non-empty; otherwise they return nil and the error that
\* names the first empty required field.
C14_CredentialsValidated ==
  call.op \in {"NewPasswordCredentials", "NewRefreshTokenCredentials"} =>
    LET fields == RequiredFields(call.op)
        empty == {i \in 1..Len(fields) : call.creds[fields[i]] = ""}
    IN IF empty = {}
         THEN /\ call.err = "nil"
              /\ ~call.ret.nil
              /\ call.ret.provider.creds = call.creds
         ELSE /\ call.ret = NilCredentials
              /\ NamedField(call.err) = fields[CHOOSE i \in empty : \A k \in empty : i <= k]

C14_Witness ==
  /\ call.op = "NewRefreshTokenCredentials"
  /\ call.creds.URL # "" /\ call.creds.RefreshToken = "" /\ call.creds.ClientID = ""
  /\ call.err = ErrCredRefreshToken
  /\ call.ret = NilCredentials

(***************************************************************************)
(* Resources: construction over a session, and the SOQL query call.        *)
(***************************************************************************)
ErrBulkSessionNil == "bulk: session can not be nil"
ErrSoqlSessionNil == "soql: session can not be nil"
ErrQuerierNil == "soql resource query: querier can not be nil"

\* a nil session.ServiceFormatter
NilSession == [nil |-> TRUE]

\* the sessions callers pass: none, or one over an org
Sessions == {NilSession} \cup {[nil |-> FALSE, org |-> o] : o \in {"na1", "eu5"}}

\* what session.Refresh() may return
RefreshOutcomes == {"nil", "refresh: transport", "refresh: 401"}

\* NewResource calling session.Refresh before the nil check of the session
NewResource_RefreshFirst(nilError, kind, session, refresh) ==
  IF refresh # "nil" \/ session = NilSession
    THEN [ret |-> NilResource, err |-> IF session = NilSession THEN nilError ELSE "session refresh: " \o refresh,
          refreshes |-> <<refresh>>]
  ELSE [ret |-> [nil |-> FALSE, kind |-> kind, session |-> session], err |-> "nil",
        refreshes |-> <<refresh>>]

\* NewResource(session) of package bulkquery and of package soql (they differ in the
\* text of the error): what it returns, and the Refresh calls it made, each with its
\* outcome; refresh is what a Refresh call on the session returns
NewResource(nilError, kind, session, refresh) ==
  IF session = NilSession THEN [ret |-> NilResource, err |-> nilError, refreshes |-> <<>>]
  ELSE IF refresh # "nil"
    THEN [ret |-> NilResource, err |-> "session refresh: " \o refresh,
          refreshes |-> <<refresh>>]
  ELSE [ret |-> [nil |-> FALSE, kind |-> kind, session |-> session], err |-> "nil",
        refreshes |-> <<refresh>>]

DoNewResource(op, nilError, kind) ==
  /\ \E session \in Sessions, refresh \in RefreshOutcomes :
       LET n == NewResource(nilError, kind, session, refresh)
       IN /\ resource' = n.ret
          /\ call' = [op |-> op, kind |-> Outcome(n.err), err |-> n.err, session |-> session,
                      refreshes |-> n.refreshes, ret |-> n.ret]
  /\ UNCHANGED <<WriteResponse, QueryResponse, Response, files, stream, pages, loop>>

\* neither sends a request of its own (Refresh is the session's)
BulkQueryNewResource ==
  DoNewResource("bulkquery.NewResource", ErrBulkSessionNil, "bulkquery") /\ sent' = <<>>

SoqlNewResource ==
  DoNewResource("soql.NewResource", ErrSoqlSessionNil, "soql") /\ sent' = <<>>

\* session.ServiceURL() of a session
SessionServiceURL(session) ==
  IF session.org = "na1" THEN ServiceURL
  ELSE "https://eu5.salesforce.com/services/data/v52.0"

\* a nil QueryFormatter, and the queriers callers pass: Format() fails or gives a query
NilQuerier == [nil |-> TRUE]

QueryTexts ==
  {<<"SELECT", " ", "Id", " ", "FROM", " ", "Account">>,
   <<"SELECT", " ", "Id", ",", "Name", " ", "FROM", " ", "Account", " ", "WHERE", " ",
     "Name", "=", "'", "A", "&", "B", "?", "'">>,
   <<"SELECT", " ", "Id", " ", "FROM", " ", "Case", " ", "WHERE", " ", "Subject", "=",
     "'", "1", "+", "1", "%", "'">>}

Queriers ==
  {NilQuerier, [nil |-> FALSE, format |-> [err |-> "soql: invalid query", query |-> <<>>]]}
    \cup {[nil |-> FALSE, format |-> [err |-> "nil", query |-> q]] : q \in QueryTexts}

\* queryRequest sending every query to the /query endpoint
Resource_queryRequest_NeverAll(r, querier, all) ==
  IF querier.format.err # "nil" THEN [err |-> querier.format.err]
  ELSE [err |-> "nil",
        request |->
          [method |-> "GET",
           url |-> <<SessionServiceURL(r.session) \o "/query" \o "/", "?">>
                     \o Encode(<<[key |-> "q", value |-> querier.format.query]>>),
           Accept |-> "application/json"]]

\* (soql) Resource.queryRequest(querier, all): the URL is the text of the service URL,
\* the endpoint and "/", then "?" and the encoded form
Resource_queryRequest(r, querier, all) ==
  IF querier.format.err # "nil" THEN [err |-> querier.format.err]
  ELSE LET endpoint == "/query" \o (IF all THEN "All" ELSE "")
       IN [err |-> "nil",
           request |->
             [method |-> "GET",
              url |-> <<SessionServiceURL(r.session) \o endpoint \o "/", "?">>
                        \o Encode(<<[key |-> "q", value |-> querier.format.query]>>),
              Accept |-> "application/json"]]

ZeroQueryResponseBody == [Done |-> FALSE, TotalSize |-> 0]

\* (soql) Resource.queryResponse(request)
Resource_queryResponse(rt) ==
  IF rt.err # "nil" THEN [value |-> ZeroQueryResponseBody, err |-> "transport"]
  ELSE IF rt.status # StatusOK THEN [value |-> ZeroQueryResponseBody, err |-> "api"]
  ELSE IF ~rt.decodes THEN [value |-> ZeroQueryResponseBody, err |-> "decode"]
  ELSE [value |-> rt.value, err |-> "nil"]

NilQueryResult == [nil |-> TRUE]

\* newQueryResult(response, resource): builds the result from the decoded response,
\* or fails on its records; it sends nothing
newQueryResult(response, r, built) ==
  IF built # "nil" THEN [ret |-> NilQueryResult, err |-> built]
  ELSE [ret |-> [nil |-> FALSE, response |-> response, resource |-> r], err |-> "nil"]

\* (soql) Resource.Query(querier, all)
Resource_Query(r, querier, all, rt, built) ==
  IF querier = NilQuerier THEN [ret |-> NilQueryResult, err |-> ErrQuerierNil, sent |-> <<>>]
  ELSE LET q == Resource_queryRequest(r, querier, all)
           response == Resource_queryResponse(rt)
           result == newQueryResult(response.value, r, built)
       IN IF q.err # "nil" THEN [ret |-> NilQueryResult, err |-> q.err, sent |-> <<>>]
          ELSE IF response.err # "nil"
            THEN [ret |-> NilQueryResult, err |-> response.err, sent |-> <<q.request>>]
          ELSE [ret |-> result.ret, err |-> result.err, sent |-> <<q.request>>]

\* the answers of the server to a query
QueryRoundTrips == JsonRoundTrips({[Done |-> TRUE, TotalSize |-> n] : n \in {0, 1}})

\* (soql) Resource.Query(querier, all) on the caller's resource
SoqlQuery ==
  /\ resource # NilResource
  /\ resource.kind = "soql"
  /\ \E querier \in Queriers, all \in BOOLEAN, rt \in QueryRoundTrips,
        built \in {"nil", "soql: record"} :
       LET q == Resource_Query(resource, querier, all, rt, built)
       IN /\ sent' = q.sent
          /\ call' = [op |-> "Resource.Query", kind |-> Outcome(q.err), err |-> q.err,
                      querier |-> querier, all |-> all, rt |-> rt, ret |-> q.ret]
  /\ UNCHANGED <<WriteResponse, QueryResponse, Response, files, stream, pages, loop, resource>>

InitResource == InitCreate

NextResource ==
  \/ BulkQueryNewResource
  \/ SoqlNewResource
  \/ SoqlQuery

SpecResource == InitResource /\ [][NextResource]_vars

\* C15: NewResource (bulk query and SOQL) with a nil session returns nil and an error
\* and makes no Refresh call; with a session it makes exactly one Refresh call and
\* returns a resource (over that session) exactly when the refresh returned nil.
C15_NewResourceRefreshesOnce ==
  call.op \in {"bulkquery.NewResource", "soql.NewResource"} =>
    IF call.session = NilSession
      THEN call.err # "nil" /\ call.ret = NilResource /\ call.refreshes = <<>>
      ELSE /\ Len(call.refreshes) = 1
           /\ (call.ret # NilResource) <=> (call.refreshes[1] = "nil")
           /\ (call.err = "nil") <=> (call.refreshes[1] = "nil")
           /\ call.ret # NilResource => call.ret.session = call.session
           /\ resource = call.ret

C15_Witness ==
  /\ call.op = "soql.NewResource"
  /\ call.session # NilSession
  /\ call.refreshes = <<"refresh: 401">>
  /\ call.ret = NilResource /\ call.err # "nil"

\* the text of a URL before its first "?", and the query string after it
URLPath(url) == SubSeq(url, 1, FirstIndex(url, "?") - 1)
URLRawQuery(url) == SubSeq(url, FirstIndex(url, "?") + 1, Len(url))

\* C19: Resource.Query with a nil querier or a failing Format returns an error and
\* sends nothing; otherwise it sends one GET, to {service}/queryAll/ when all is true
\* and to {service}/query/ when not, whose query string holds the single parameter q,
\* read by the server as the formatted query.
C19_QueryEndpointAndText ==
  call.op = "Resource.Query" =>
    IF call.querier = NilQuerier \/ call.querier.format.err # "nil"
      THEN call.err # "nil" /\ sent = <<>> /\ call.ret = NilQueryResult
      ELSE /\ Len(sent) = 1
           /\ sent[1].method = "GET"
           /\ URLPath(sent[1].url) =
                <<SessionServiceURL(resource.session)
                    \o (IF call.all THEN "/queryAll/" ELSE "/query/")>>
           /\ ParseQuery(URLRawQuery(sent[1].url)) =
                <<[key |-> <<"q">>, value |-> call.querier.format.query]>>

C19_Witness ==
  /\ call.op = "Resource.Query" /\ call.all /\ call.err = "nil"
  /\ call.querier # NilQuerier
  /\ \E i \in 1..Len(call.querier.format.query) : call.querier.format.query[i] = "&"
  /\ URLPath(sent[1].url) = <<"https://na1.salesforce.com/services/data/v52.0/queryAll/">>

====
